---- MODULE Spec2Model ----
(***************************************************************************)
(* Content scoring engine of WhatTheDUK: the votes function, the vote      *)
(* score trigger of the database and the moderation function.              *)
(*                                                                         *)
(* Every supabase call of a handler is one SQL statement in its own        *)
(* transaction; an AFTER ROW trigger runs inside the statement that fired  *)
(* it.  A handler is a process whose steps are its awaited calls, so the   *)
(* handlers of concurrent requests interleave between statements.          *)
(*                                                                         *)
(* Spec        the votes function on a store whose items were moderated.   *)
(* ModSpec     the moderation function on freshly created (pending) items. *)
(* FrameSpec   the moderation function on a store that holds further items.*)
(* MixedSpec   both functions on one store.                                *)
(* CreateSpec  create-post and create-comment with the moderation they     *)
(*             invoke.                                                     *)
(* ScorerSpec  the toxicity scorer and the decision as functions of a      *)
(*             text, evaluated repeatedly.                                 *)
(* HotSpec     calculate_hot_score as a function of its arguments and the  *)
(*             time of the call.                                           *)
(* RefreshSpec refresh_hot_scores on a store of posts of every visibility. *)
(* TopicSpec   updateTrendingTopics of the posts and of the search         *)
(*             function, run by concurrent callers.                        *)
(* SearchSpec  the search function on a store of moderated posts.          *)
(* PostVoteSpec the 'vote' action of the posts function.                   *)
(* CommunitySpec the communities function: creation, join and approval.    *)
(* CountSpec   the creation and moderation of content and the deletion of  *)
(*             comments.                                                   *)
(***************************************************************************)
EXTENDS Integers, Sequences, FiniteSets, TLC

VARIABLES posts, comments, votes, moderation_logs, trending_topics,
          vpc, vreq, vresp, nreq, lastVote, streak,
          mpc, mreq, mtox, mdec, mresp, nmod,
          cpc, creq, cresp, cwords, ncre,
          evaluations, hotcalls, tcall,
          spc, sreq, sres, sresp, nsea,
          communities, memberships, gpc, greq, gloc, gresp, ncom

vars == <<posts, comments, votes, moderation_logs, trending_topics,
          vpc, vreq, vresp, nreq, lastVote, streak,
          mpc, mreq, mtox, mdec, mresp, nmod,
          cpc, creq, cresp, cwords, ncre,
          evaluations, hotcalls, tcall,
          spc, sreq, sres, sresp, nsea,
          communities, memberships, gpc, greq, gloc, gresp, ncom>>

dbVars == <<posts, comments, votes, moderation_logs>>
voteVars == <<vpc, vreq, vresp, nreq, lastVote, streak>>
modVars == <<mpc, mreq, mtox, mdec, mresp, nmod>>
createVars == <<cpc, creq, cresp, cwords, ncre>>
communityVars == <<communities, memberships, gpc, greq, gloc, gresp, ncom>>
searchVars == <<spc, sreq, sres, sresp, nsea>>

Null == "null"

\* ------------------------------------------------------------------ bounds
MaxVoteRequests == 2
MaxModerations == 2
MaxMixedRequests == 1
MaxCreates == 2
MaxEvaluations == 2
MaxHotCalls == 2
MaxSearches == 2
MaxCommunityRequests == 2

\* ------------------------------------------------------------ the universe
Users == {"u1", "u2"}
PostIds == {"p1"}
CommentIds == {"c1"}
UnknownId == "px"
VoteHandlers == {"h1", "h2"}
ModHandlers == {"m1"}
T0 == "t0"
Now == "t1"

\* ------------------------------------------------------------------- texts
\* A text is a sequence of one-character strings.
T_empty == <<>>
T_clean == <<"g","o","o","d"," ","m","o","r","n","i","n","g"," ","a","l","l">>
T_spam == <<"F","r","e","e"," ","S","P","A","M"," ","h","e","r","e","!">>
T_multi == <<"F","R","A","U","D"," ","o","r"," ","s","c","a","m">>
T_two == <<"h","a","t","e","!","!","!","!","!">>
T_four == <<"h","a","t","e"," ","A","B","C","D","E","F","G","H","I","J"," ",
            "1","2","3","4","5","6","7","8","9","0"," ",
            "h","t","t","p",":","/","/","x">>

T_loud == <<"h","a","t","e"," ","H","A","C","K","H","A","C","K","H","A","C","K",
            "!","!","!","!","!"," ","h","t","t","p",":","/","/","x">>

Texts == [t_empty |-> T_empty, t_clean |-> T_clean, t_spam |-> T_spam,
          t_multi |-> T_multi, t_two |-> T_two, t_four |-> T_four,
          t_loud |-> T_loud]
TextIds == DOMAIN Texts

\* Math.random() * 0.1 in thousandths: values in [0, 0.1)
JitterMilli == {0, 4, 5, 99}

UpperChars == {"A","B","C","D","E","F","G","H","I","J","K","L","M",
               "N","O","P","Q","R","S","T","U","V","W","X","Y","Z"}
LowerChars == {"a","b","c","d","e","f","g","h","i","j","k","l","m",
               "n","o","p","q","r","s","t","u","v","w","x","y","z"}
DigitChars == {"0","1","2","3","4","5","6","7","8","9"}
SpaceChars == {" ", "\n", "\t", "\r"}
WordChars == UpperChars \cup LowerChars \cup DigitChars \cup {"_"}

LowerOf == [A |-> "a", B |-> "b", C |-> "c", D |-> "d", E |-> "e", F |-> "f",
            G |-> "g", H |-> "h", I |-> "i", J |-> "j", K |-> "k", L |-> "l",
            M |-> "m", N |-> "n", O |-> "o", P |-> "p", Q |-> "q", R |-> "r",
            S |-> "s", T |-> "t", U |-> "u", V |-> "v", W |-> "w", X |-> "x",
            Y |-> "y", Z |-> "z"]

toLowerCase(s) == [i \in 1..Len(s) |-> IF s[i] \in UpperChars THEN LowerOf[s[i]] ELSE s[i]]

includes(s, w) == \E i \in 1..(Len(s) - Len(w) + 1) : SubSeq(s, i, i + Len(w) - 1) = w

RECURSIVE join(_, _)
\* Array.prototype.join: the elements with sep between them
join(ws, sep) ==
  IF Len(ws) = 0 THEN <<>>
  ELSE IF Len(ws) = 1 THEN ws[1]
  ELSE ws[1] \o sep \o join(Tail(ws), sep)

\* ------------------------------------------------------------- moderation
profanityWords == << <<"s","p","a","m">>, <<"s","c","a","m">>, <<"f","a","k","e">>,
                     <<"f","r","a","u","d">>, <<"c","h","e","a","t">>,
                     <<"h","a","c","k">>, <<"i","l","l","e","g","a","l">> >>

\* the filter without the lowering of the content
checkProfanity_caseSensitive(content) ==
  LET foundWords == SelectSeq(profanityWords, LAMBDA word : includes(content, word))
  IN [hasProfanity |-> Len(foundWords) > 0, words |-> foundWords]

checkProfanity(content) ==
  LET contentLower == toLowerCase(content)
      foundWords == SelectSeq(profanityWords, LAMBDA word : includes(contentLower, word))
  IN [hasProfanity |-> Len(foundWords) > 0, words |-> foundWords]

\* \b between positions i-1 and i of s (i in 1..Len(s)+1)
wordBoundary(s, i) ==
  LET before == i > 1 /\ s[i - 1] \in WordChars
      after == i <= Len(s) /\ s[i] \in WordChars
  IN before # after

threatWords == { <<"h","a","t","e">>, <<"a","t","t","a","c","k">>,
                 <<"t","h","r","e","a","t">>,
                 <<"v","i","o","l","e","n","c","e">> }

\* /\b(hate|attack|threat|violence)\b/i
patternThreat(s) ==
  \E w \in threatWords : \E i \in 1..(Len(s) - Len(w) + 1) :
     /\ toLowerCase(SubSeq(s, i, i + Len(w) - 1)) = w
     /\ wordBoundary(s, i)
     /\ wordBoundary(s, i + Len(w))

\* /[A-Z]{10,}/
patternCaps(s) ==
  \E i \in 1..(Len(s) - 9) : \A k \in 0..9 : s[i + k] \in UpperChars

\* /(.)\1{4,}/
patternRepeat(s) ==
  \E i \in 1..(Len(s) - 4) : s[i] # "\n" /\ \A k \in 1..4 : s[i + k] = s[i]

\* /\b\d{10,}\b/
patternDigits(s) ==
  \E i \in 1..(Len(s) - 9) :
     /\ wordBoundary(s, i)
     /\ \A k \in i..(i + 9) : s[k] \in DigitChars
     /\ \E j \in (i + 9)..Len(s) :
          /\ \A k \in (i + 10)..j : s[k] \in DigitChars
          /\ wordBoundary(s, j + 1)

\* /https?:\/\/[^\s]+/g
patternUrl(s) ==
  LET http == <<"h","t","t","p",":","/","/">>
      https == <<"h","t","t","p","s",":","/","/">>
  IN \E i \in 1..Len(s) :
        \/ /\ i + 7 <= Len(s)
           /\ SubSeq(s, i, i + 6) = http
           /\ s[i + 7] \notin SpaceChars
        \/ /\ i + 8 <= Len(s)
           /\ SubSeq(s, i, i + 7) = https
           /\ s[i + 8] \notin SpaceChars

suspiciousPatterns(s) ==
  <<patternThreat(s), patternCaps(s), patternRepeat(s), patternDigits(s), patternUrl(s)>>

\* Math.round(x * 100) / 100 of a value in thousandths, in hundredths
round2(milli) == (milli + 5) \div 10

\* the sum returned without the clamp to 1
rawToxicity_unclamped(content, random) ==
  LET tested == suspiciousPatterns(content)
      hits == Cardinality({i \in 1..5 : tested[i]})
      short == IF Len(content) < 10 THEN 100 ELSE 0
      long == IF Len(content) > 2000 THEN 100 ELSE 0
  IN 200 * hits + short + long + random

\* The score in thousandths before the rounding; random is Math.random() * 0.1.
rawToxicity(content, random) ==
  LET tested == suspiciousPatterns(content)
      hits == Cardinality({i \in 1..5 : tested[i]})
      short == IF Len(content) < 10 THEN 100 ELSE 0
      long == IF Len(content) > 2000 THEN 100 ELSE 0
      sum == 200 * hits + short + long + random
  IN IF sum < 1000 THEN sum ELSE 1000

\* score is in hundredths
checkToxicity(content, random) ==
  LET toxicityScore == rawToxicity(content, random)
  IN [score |-> round2(toxicityScore), is_toxic |-> toxicityScore > 700]

prohibitedPrefix == <<"Contains prohibited words: ">>
commaSpace == <<",", " ">>

\* both thresholds taken as >=
decideModerationAction_nonStrict(profanityResult, toxicityResult) ==
  IF toxicityResult.score >= 80 \/ profanityResult.hasProfanity
  THEN [action |-> "reject",
        reason |-> IF profanityResult.hasProfanity
                   THEN prohibitedPrefix \o join(profanityResult.words, commaSpace)
                   ELSE <<"High toxicity score detected">>]
  ELSE IF toxicityResult.score >= 50
  THEN [action |-> "flag", reason |-> <<"Moderate toxicity score - requires manual review">>]
  ELSE [action |-> "approve", reason |-> <<"Content passed automated moderation checks">>]

decideModerationAction(profanityResult, toxicityResult) ==
  IF toxicityResult.score > 80 \/ profanityResult.hasProfanity
  THEN [action |-> "reject",
        reason |-> IF profanityResult.hasProfanity
                   THEN prohibitedPrefix \o join(profanityResult.words, commaSpace)
                   ELSE <<"High toxicity score detected">>]
  ELSE IF toxicityResult.score > 50
  THEN [action |-> "flag", reason |-> <<"Moderate toxicity score - requires manual review">>]
  ELSE [action |-> "approve", reason |-> <<"Content passed automated moderation checks">>]

\* ---------------------------------------------------------------- hot score
\* A natural number as its digits to the base 1000, lowest first: the products
\* of the comparison below do not fit a machine integer.
RECURSIVE BigTimes(_, _, _)
\* n * k + carry, for 0 < k
BigTimes(n, k, carry) ==
  IF n = <<>>
  THEN IF carry = 0 THEN <<>> ELSE <<carry % 1000>> \o BigTimes(<<>>, k, carry \div 1000)
  ELSE LET v == Head(n) * k + carry
       IN <<v % 1000>> \o BigTimes(Tail(n), k, v \div 1000)

RECURSIVE BigTimesPower(_, _, _)
\* n * k^e
BigTimesPower(n, k, e) == IF e = 0 THEN n ELSE BigTimesPower(BigTimes(n, k, 0), k, e - 1)

BigLess(a, b) ==
  \/ Len(a) < Len(b)
  \/ /\ Len(a) = Len(b)
     /\ \E i \in 1..Len(a) : a[i] < b[i] /\ \A j \in (i + 1)..Len(a) : a[j] = b[j]

\* A real of the form base_score / POWER(age_in_hours + 2, 1.8) is kept as
\* [base2, den20]: base2 is base_score in halves, den20 is age_in_hours + 2 in
\* twentieths.  Times are in twentieths of an hour.
HotDefault == [base2 |-> 0, den20 |-> 40]

\* |x| < |y| for x, y of one sign and not zero: with b = |base2| and d = den20,
\* bx / dx^(9/5) < by / dy^(9/5)  iff  bx^5 * dy^9 < by^5 * dx^9
HotMagnitudeLess(x, y) ==
  LET bx == IF x.base2 < 0 THEN -x.base2 ELSE x.base2
      by == IF y.base2 < 0 THEN -y.base2 ELSE y.base2
  IN BigLess(BigTimesPower(BigTimesPower(<<1>>, y.den20, 9), bx, 5),
             BigTimesPower(BigTimesPower(<<1>>, x.den20, 9), by, 5))

\* x < y as reals
HotLess(x, y) ==
  IF x.base2 < 0 THEN y.base2 >= 0 \/ HotMagnitudeLess(y, x)
  ELSE IF x.base2 = 0 THEN y.base2 > 0
  ELSE y.base2 > 0 /\ HotMagnitudeLess(x, y)

HotEqual(x, y) == ~HotLess(x, y) /\ ~HotLess(y, x)

\* calculate_hot_score(vote_score, comment_count, created_at), called at now()
calculate_hot_score(vote_score, comment_count, created_at, now) ==
  LET age == now - created_at
      age_in_hours == IF age <= 0 THEN 2 ELSE age
      base_score == 2 * vote_score + comment_count
  IN [base2 |-> base_score, den20 |-> age_in_hours + 40]

\* --------------------------------------------------------- the content store
\* A row as handleCreatePost inserts it: the given columns and the defaults.
NewPost(content, author) ==
  [title |-> "title", content |-> content, author_id |-> author,
   community_id |-> "k1", is_approved |-> FALSE, is_removed |-> FALSE,
   moderation_status |-> "pending", toxicity_score |-> 0, vote_score |-> 0,
   comment_count |-> 0, hot_score |-> HotDefault,
   created_at |-> T0, updated_at |-> T0, approved_at |-> Null]

\* A row as handleCreateComment inserts it.
NewComment(content, author, post_id) ==
  [content |-> content, author_id |-> author, post_id |-> post_id,
   parent_id |-> Null, is_approved |-> FALSE, is_removed |-> FALSE,
   moderation_status |-> "pending", toxicity_score |-> 0, vote_score |-> 0,
   depth |-> 0, created_at |-> T0, updated_at |-> T0, approved_at |-> Null]

\* SQL UPDATE ... SET of the columns of data on one row
SetColumns(row, data) ==
  [col \in DOMAIN row |-> IF col \in DOMAIN data THEN data[col] ELSE row[col]]

\* the mapping with a rejected item left in place (is_removed not written)
updateData_rejectKeepsItem(decision, toxicityScore) ==
  LET base == [toxicity_score |-> toxicityScore, updated_at |-> Now]
  IN CASE decision.action = "approve" ->
            [is_approved |-> TRUE, moderation_status |-> "approved", approved_at |-> Now] @@ base
       [] decision.action = "flag" -> [moderation_status |-> "flagged"] @@ base
       [] decision.action = "reject" -> [moderation_status |-> "rejected"] @@ base
       [] OTHER -> base

updateData(decision, toxicityScore) ==
  LET base == [toxicity_score |-> toxicityScore, updated_at |-> Now]
  IN CASE decision.action = "approve" ->
            [is_approved |-> TRUE, moderation_status |-> "approved", approved_at |-> Now] @@ base
       [] decision.action = "flag" -> [moderation_status |-> "flagged"] @@ base
       [] decision.action = "reject" ->
            [moderation_status |-> "rejected", is_removed |-> TRUE] @@ base
       [] OTHER -> base

\* UPDATE posts SET comment_count = comment_count + by WHERE id = post_id
AddCommentCount(ps, post_id, by) ==
  [id \in DOMAIN ps |->
     IF id = post_id THEN [ps[id] EXCEPT !.comment_count = @ + by] ELSE ps[id]]

\* the trigger without its DELETE branch
update_post_comment_count_noDelete(TG_OP, OLDROW, NEWROW, ps) ==
  IF TG_OP = "INSERT"
  THEN IF NEWROW.is_approved THEN AddCommentCount(ps, NEWROW.post_id, 1) ELSE ps
  ELSE IF TG_OP = "UPDATE"
  THEN IF OLDROW.is_approved # NEWROW.is_approved
       THEN AddCommentCount(ps, NEWROW.post_id, IF NEWROW.is_approved THEN 1 ELSE -1)
       ELSE ps
  ELSE ps

\* trigger update_post_comment_count_trigger, AFTER INSERT OR UPDATE OR DELETE
\* ON comments FOR EACH ROW: the new posts table
update_post_comment_count(TG_OP, OLDROW, NEWROW, ps) ==
  IF TG_OP = "INSERT"
  THEN IF NEWROW.is_approved THEN AddCommentCount(ps, NEWROW.post_id, 1) ELSE ps
  ELSE IF TG_OP = "UPDATE"
  THEN IF OLDROW.is_approved # NEWROW.is_approved
       THEN AddCommentCount(ps, NEWROW.post_id, IF NEWROW.is_approved THEN 1 ELSE -1)
       ELSE ps
  ELSE IF OLDROW.is_approved THEN AddCommentCount(ps, OLDROW.post_id, -1) ELSE ps

\* the update of the posts table without its .eq('id', contentId)
updateContentStatus_noIdFilter(ps, cs, contentType, contentId, decision, toxicityScore) ==
  LET data == updateData(decision, toxicityScore)
  IN IF contentType = "post"
     THEN [posts |-> [id \in DOMAIN ps |-> SetColumns(ps[id], data)],
           comments |-> cs]
     ELSE IF contentId \in DOMAIN cs
     THEN [posts |-> update_post_comment_count("UPDATE",
                        cs[contentId], SetColumns(cs[contentId], data), ps),
           comments |-> [cs EXCEPT ![contentId] = SetColumns(@, data)]]
     ELSE [posts |-> ps, comments |-> cs]

\* The update of updateContentStatus with its trigger: the new posts and comments.
\* An id that matches no row updates nothing and is no error.
updateContentStatus(ps, cs, contentType, contentId, decision, toxicityScore) ==
  LET data == updateData(decision, toxicityScore)
  IN IF contentType = "post"
     THEN [posts |-> [id \in DOMAIN ps |->
                        IF id = contentId THEN SetColumns(ps[id], data) ELSE ps[id]],
           comments |-> cs]
     ELSE IF contentId \in DOMAIN cs
     THEN [posts |-> update_post_comment_count("UPDATE",
                        cs[contentId], SetColumns(cs[contentId], data), ps),
           comments |-> [cs EXCEPT ![contentId] = SetColumns(@, data)]]
     ELSE [posts |-> ps, comments |-> cs]

\* view posts_with_stats: the ids it shows (the joins are on NOT NULL foreign keys)
posts_with_stats(ps) == {id \in DOMAIN ps : ~ps[id].is_removed}

\* ------------------------------------------------------------------- votes
\* up votes only
calculate_vote_score_upOnly(vs, target_id, target_type) ==
  LET up_votes ==
        IF target_type = "post"
        THEN Cardinality({v \in vs : v.post_id = target_id /\ v.vote_type = "up"})
        ELSE IF target_type = "comment"
        THEN Cardinality({v \in vs : v.comment_id = target_id /\ v.vote_type = "up"})
        ELSE 0
  IN up_votes

calculate_vote_score(vs, target_id, target_type) ==
  LET up_votes ==
        IF target_type = "post"
        THEN Cardinality({v \in vs : v.post_id = target_id /\ v.vote_type = "up"})
        ELSE IF target_type = "comment"
        THEN Cardinality({v \in vs : v.comment_id = target_id /\ v.vote_type = "up"})
        ELSE 0
      down_votes ==
        IF target_type = "post"
        THEN Cardinality({v \in vs : v.post_id = target_id /\ v.vote_type = "down"})
        ELSE IF target_type = "comment"
        THEN Cardinality({v \in vs : v.comment_id = target_id /\ v.vote_type = "down"})
        ELSE 0
  IN up_votes - down_votes

SetVoteScore(tbl, id, score) ==
  [x \in DOMAIN tbl |-> IF x = id THEN [tbl[x] EXCEPT !.vote_score = score] ELSE tbl[x]]

\* the trigger without its UPDATE branch
update_vote_scores_noUpdateBranch(TG_OP, OLDROW, NEWROW, ps, cs, vs) ==
  LET r == IF TG_OP = "DELETE" THEN OLDROW ELSE NEWROW
  IN IF TG_OP = "UPDATE" THEN [posts |-> ps, comments |-> cs]
     ELSE IF r.post_id # Null
     THEN [posts |-> SetVoteScore(ps, r.post_id, calculate_vote_score(vs, r.post_id, "post")),
           comments |-> cs]
     ELSE IF r.comment_id # Null
     THEN [posts |-> ps,
           comments |-> SetVoteScore(cs, r.comment_id,
                           calculate_vote_score(vs, r.comment_id, "comment"))]
     ELSE [posts |-> ps, comments |-> cs]

\* trigger update_vote_scores_trigger, AFTER INSERT OR UPDATE OR DELETE FOR EACH
\* ROW: vs is the votes table as the statement left it
update_vote_scores(TG_OP, OLDROW, NEWROW, ps, cs, vs) ==
  LET r == IF TG_OP = "DELETE" THEN OLDROW ELSE NEWROW
  IN IF r.post_id # Null
     THEN [posts |-> SetVoteScore(ps, r.post_id, calculate_vote_score(vs, r.post_id, "post")),
           comments |-> cs]
     ELSE IF r.comment_id # Null
     THEN [posts |-> ps,
           comments |-> SetVoteScore(cs, r.comment_id,
                           calculate_vote_score(vs, r.comment_id, "comment"))]
     ELSE [posts |-> ps, comments |-> cs]

\* gen_random_uuid(): an id no row holds
FreshVoteId(vs) ==
  CHOOSE n \in 1..(Cardinality(vs) + 1) :
     /\ \A v \in vs : v.id # n
     /\ \A m \in 1..(n - 1) : \E v \in vs : v.id = m

\* the row an insert of voteData makes: absent columns take their defaults
VoteRow(vs, voteData) ==
  [id |-> FreshVoteId(vs), user_id |-> voteData.user_id,
   post_id |-> IF "post_id" \in DOMAIN voteData THEN voteData.post_id ELSE Null,
   comment_id |-> IF "comment_id" \in DOMAIN voteData THEN voteData.comment_id ELSE Null,
   vote_type |-> voteData.vote_type]

\* the rows of vs that an insert of voteData conflicts with on (user_id, col)
Conflicting(vs, voteData, col) ==
  {v \in vs : v.user_id = voteData.user_id /\ v[col] # Null
              /\ col \in DOMAIN voteData /\ v[col] = voteData[col]}

\* a plain INSERT whatever rows exist
VotesUpsert_alwaysInsert(vs, voteData, col) ==
  LET row == VoteRow(vs, voteData)
  IN [votes |-> vs \cup {row}, fired |-> {<<"INSERT", row, row>>}]

\* a vote that repeats the stored polarity takes the vote back
VotesUpsert_toggle(vs, voteData, col) ==
  LET hit == Conflicting(vs, voteData, col)
      row == VoteRow(vs, voteData)
  IN IF hit = {} THEN [votes |-> vs \cup {row}, fired |-> {<<"INSERT", row, row>>}]
     ELSE IF \E v \in hit : v.vote_type = voteData.vote_type
     THEN [votes |-> vs \ hit, fired |-> {<<"DELETE", v, v>> : v \in hit}]
     ELSE [votes |-> (vs \ hit) \cup {SetColumns(v, voteData) : v \in hit},
           fired |-> {<<"UPDATE", v, SetColumns(v, voteData)>> : v \in hit}]

\* .upsert(voteData, {onConflict: 'user_id,<col>'}):
\* INSERT ... ON CONFLICT (user_id, col) DO UPDATE SET the columns of voteData.
\* fired holds <<TG_OP, OLDROW, NEWROW>> for each row the statement touched.
VotesUpsert(vs, voteData, col) ==
  LET hit == Conflicting(vs, voteData, col)
      row == VoteRow(vs, voteData)
  IN IF hit = {} THEN [votes |-> vs \cup {row}, fired |-> {<<"INSERT", row, row>>}]
     ELSE [votes |-> (vs \ hit) \cup {SetColumns(v, voteData) : v \in hit},
           fired |-> {<<"UPDATE", v, SetColumns(v, voteData)>> : v \in hit}]

\* .delete().eq('user_id', user).eq(col, id)
VotesDelete(vs, user, col, id) ==
  LET hit == {v \in vs : v.user_id = user /\ v[col] = id}
  IN [votes |-> vs \ hit, fired |-> {<<"DELETE", v, v>> : v \in hit}]

RECURSIVE RunVoteTriggers(_, _, _, _)
\* the row triggers of one statement, each on the tables the previous one left
RunVoteTriggers(fired, ps, cs, vs) ==
  IF fired = {} THEN [posts |-> ps, comments |-> cs]
  ELSE LET e == CHOOSE x \in fired : TRUE
           r == update_vote_scores(e[1], e[2], e[3], ps, cs, vs)
       IN RunVoteTriggers(fired \ {e}, r.posts, r.comments, vs)

\* ------------------------------------------------------ the votes function
\* A nullable number of a JSON body is <<n>>, or <<>> for null.
NoRequest == [user |-> Null, post_id |-> Null, comment_id |-> Null, vote_type |-> Null]
NoResponse == [success |-> FALSE, vote_score |-> <<>>, error |-> Null]
VoteOk(score) == [success |-> TRUE, vote_score |-> score, error |-> Null]
VoteError(msg) == [success |-> FALSE, vote_score |-> <<>>, error |-> msg]

MustSpecify == "Must specify either post_id or comment_id, but not both"
StoreError == "store error"

\* the validation with only the 'neither' half of its first test
ValidateVoteRequest_allowBoth(post_id, comment_id, vote_type) ==
  IF post_id = Null /\ comment_id = Null THEN MustSpecify
  ELSE IF vote_type # Null /\ vote_type \notin {"up", "down"} THEN "Invalid vote type"
  ELSE Null

\* "Validate input": the message thrown, or Null
ValidateVoteRequest(post_id, comment_id, vote_type) ==
  IF (post_id = Null /\ comment_id = Null) \/ (post_id # Null /\ comment_id # Null)
  THEN MustSpecify
  ELSE IF vote_type # Null /\ vote_type \notin {"up", "down"} THEN "Invalid vote type"
  ELSE Null

\* post_id || comment_id, and post_id ? 'post' : 'comment'
TargetId(r) == IF r.post_id # Null THEN r.post_id ELSE r.comment_id
TargetType(r) == IF r.post_id # Null THEN "post" ELSE "comment"
TargetColumn(r) == IF r.post_id # Null THEN "post_id" ELSE "comment_id"

\* select id from comments where id = ... and is_approved and not is_removed
VisibleComments(cs) == {id \in DOMAIN cs : cs[id].is_approved /\ ~cs[id].is_removed}

\* the request is parsed, the user authenticated, the input validated
VoteStart(h) ==
  /\ vpc[h] = "idle"
  /\ nreq < MaxVoteRequests
  /\ nreq' = nreq + 1
  /\ \E auth \in BOOLEAN, user \in Users,
        post_id \in PostIds \cup {UnknownId, Null},
        comment_id \in CommentIds \cup {Null},
        vote_type \in {"up", "down", Null, "sideways"} :
       LET err == IF ~auth THEN "Invalid authentication"
                  ELSE ValidateVoteRequest(post_id, comment_id, vote_type)
       IN /\ vreq' = [vreq EXCEPT ![h] =
                        IF auth THEN [user |-> user, post_id |-> post_id,
                                      comment_id |-> comment_id, vote_type |-> vote_type]
                        ELSE NoRequest]
          /\ IF err # Null
             THEN /\ vpc' = [vpc EXCEPT ![h] = "done"]
                  /\ vresp' = [vresp EXCEPT ![h] = VoteError(err)]
             ELSE /\ vpc' = [vpc EXCEPT ![h] = "check"]
                  /\ UNCHANGED vresp
  /\ UNCHANGED <<evaluations, hotcalls, communityVars, tcall, searchVars, trending_topics, createVars, dbVars, lastVote, streak, modVars>>

\* "Check if content exists and user can access it"; a failed read gives no row
VoteCheck(h) ==
  /\ vpc[h] = "check"
  /\ \E readFails \in BOOLEAN :
       LET r == vreq[h]
           found == /\ ~readFails
                    /\ IF r.post_id # Null
                       THEN r.post_id \in posts_with_stats(posts)
                       ELSE r.comment_id \in VisibleComments(comments)
       IN IF found
          THEN /\ vpc' = [vpc EXCEPT ![h] = "mutate"]
               /\ UNCHANGED vresp
          ELSE /\ vpc' = [vpc EXCEPT ![h] = "done"]
               /\ vresp' = [vresp EXCEPT ![h] = VoteError(
                               IF r.post_id # Null
                               THEN "Post not found or not accessible"
                               ELSE "Comment not found or not accessible")]
  /\ UNCHANGED <<evaluations, hotcalls, communityVars, tcall, searchVars, trending_topics, createVars, dbVars, vreq, nreq, lastVote, streak, modVars>>

\* "Handle vote": the delete or the upsert, one statement with its row triggers
VoteMutate(h) ==
  /\ vpc[h] = "mutate"
  /\ \E storeFails \in BOOLEAN :
       LET r == vreq[h]
           voteData == IF r.post_id # Null
                       THEN [user_id |-> r.user, vote_type |-> r.vote_type,
                             post_id |-> r.post_id]
                       ELSE [user_id |-> r.user, vote_type |-> r.vote_type,
                             comment_id |-> r.comment_id]
           stmt == IF r.vote_type = Null
                   THEN VotesDelete(votes, r.user, TargetColumn(r), TargetId(r))
                   ELSE VotesUpsert(votes, voteData, TargetColumn(r))
           after == RunVoteTriggers(stmt.fired, posts, comments, stmt.votes)
       IN IF storeFails
          THEN /\ vpc' = [vpc EXCEPT ![h] = "done"]
               /\ vresp' = [vresp EXCEPT ![h] = VoteError(StoreError)]
               /\ UNCHANGED <<posts, comments, votes, lastVote, streak>>
          ELSE /\ votes' = stmt.votes
               /\ posts' = after.posts
               /\ comments' = after.comments
               /\ vpc' = [vpc EXCEPT ![h] = "recount"]
               /\ lastVote' = r
               /\ streak' = IF lastVote = r THEN 2 ELSE 1
               /\ UNCHANGED vresp
  /\ UNCHANGED <<evaluations, hotcalls, communityVars, tcall, searchVars, trending_topics, createVars, moderation_logs, vreq, nreq, modVars>>

\* "Get updated vote score": the rpc, whose error is not looked at, and the response
VoteRecount(h) ==
  /\ vpc[h] = "recount"
  /\ \E rpcFails \in BOOLEAN :
       LET r == vreq[h]
           voteScore == IF rpcFails THEN <<>>
                        ELSE <<calculate_vote_score(votes, TargetId(r), TargetType(r))>>
       IN vresp' = [vresp EXCEPT ![h] = VoteOk(voteScore)]
  /\ vpc' = [vpc EXCEPT ![h] = "done"]
  /\ UNCHANGED <<evaluations, hotcalls, communityVars, tcall, searchVars, trending_topics, createVars, dbVars, vreq, nreq, lastVote, streak, modVars>>

\* the response is sent; the handler is free for the next request
VoteReturn(h) ==
  /\ vpc[h] = "done"
  /\ vpc' = [vpc EXCEPT ![h] = "idle"]
  /\ vreq' = [vreq EXCEPT ![h] = NoRequest]
  /\ vresp' = [vresp EXCEPT ![h] = NoResponse]
  /\ UNCHANGED <<evaluations, hotcalls, communityVars, tcall, searchVars, trending_topics, createVars, dbVars, nreq, lastVote, streak, modVars>>

\* ------------------------------------- the 'vote' action of the posts function
UniqueViolation == "duplicate key value violates unique constraint"
ForeignKeyViolation == "violates foreign key constraint"

\* .upsert({user_id, post_id, vote_type}) without onConflict:
\* INSERT ... ON CONFLICT (id) DO UPDATE.  The row carries no id, its id is
\* a fresh one and never conflicts; UNIQUE(user_id, post_id) and the foreign
\* key of post_id are checked as for a plain insert.
VotesUpsertOnPrimaryKey(vs, ps, voteData) ==
  LET row == VoteRow(vs, voteData)
  IN IF voteData.post_id \notin DOMAIN ps
     THEN [votes |-> vs, fired |-> {}, error |-> ForeignKeyViolation]
     ELSE IF Conflicting(vs, voteData, "post_id") # {}
     THEN [votes |-> vs, fired |-> {}, error |-> UniqueViolation]
     ELSE [votes |-> vs \cup {row}, fired |-> {<<"INSERT", row, row>>}, error |-> Null]

\* the request is parsed, the user authenticated, the action dispatched
PostVoteStart(h) ==
  /\ vpc[h] = "idle"
  /\ nreq < MaxVoteRequests
  /\ nreq' = nreq + 1
  /\ \E auth \in BOOLEAN, user \in Users, post_id \in PostIds \cup {UnknownId},
        vote_type \in {"up", "down", Null} :
       IF auth
       THEN /\ vreq' = [vreq EXCEPT ![h] = [user |-> user, post_id |-> post_id,
                                            comment_id |-> Null, vote_type |-> vote_type]]
            /\ vpc' = [vpc EXCEPT ![h] = "postvote"]
            /\ UNCHANGED vresp
       ELSE /\ vreq' = [vreq EXCEPT ![h] = NoRequest]
            /\ vpc' = [vpc EXCEPT ![h] = "done"]
            /\ vresp' = [vresp EXCEPT ![h] = VoteError("Invalid authentication")]
  /\ UNCHANGED <<evaluations, hotcalls, communityVars, tcall, searchVars, trending_topics, createVars, dbVars, lastVote, streak, modVars>>

\* handleVotePost: the delete or the upsert, one statement with its row
\* triggers, and the response
PostVoteMutate(h) ==
  /\ vpc[h] = "postvote"
  /\ \E storeFails \in BOOLEAN :
       LET r == vreq[h]
           stmt == IF r.vote_type = Null
                   THEN VotesDelete(votes, r.user, "post_id", r.post_id) @@ [error |-> Null]
                   ELSE VotesUpsertOnPrimaryKey(votes, posts,
                           [user_id |-> r.user, post_id |-> r.post_id,
                            vote_type |-> r.vote_type])
           after == RunVoteTriggers(stmt.fired, posts, comments, stmt.votes)
       IN IF storeFails
          THEN /\ vresp' = [vresp EXCEPT ![h] = VoteError(StoreError)]
               /\ UNCHANGED <<posts, comments, votes>>
          ELSE /\ votes' = stmt.votes
               /\ posts' = after.posts
               /\ comments' = after.comments
               /\ vresp' = [vresp EXCEPT ![h] =
                              IF stmt.error # Null THEN VoteError(stmt.error)
                              ELSE VoteOk(<<>>)]
  /\ vpc' = [vpc EXCEPT ![h] = "done"]
  /\ UNCHANGED <<evaluations, hotcalls, communityVars, tcall, searchVars, trending_topics, createVars, moderation_logs, vreq, nreq, lastVote, streak, modVars>>

\* ------------------------------------------------- the moderation function
NoModRequest == [content |-> Null, content_type |-> Null, content_id |-> Null,
                 author_id |-> Null]
NoToxicity == [score |-> 0, is_toxic |-> FALSE]
NoDecision == [action |-> Null, reason |-> <<>>]
NoModResponse == [ok |-> FALSE, decision |-> Null, toxicity_score |-> <<>>,
                  auto_approved |-> FALSE]
ModError == [ok |-> FALSE, decision |-> "Moderation check failed",
             toxicity_score |-> <<>>, auto_approved |-> FALSE]

\* checkProfanity and checkToxicity on the texts of the model, computed once
ProfanityOfText == [t \in TextIds |-> checkProfanity(Texts[t])]
ToxicityOfText ==
  [t \in TextIds |-> [random \in JitterMilli |-> checkToxicity(Texts[t], random)]]

\* steps 1-3: the filter, the scorer and the decision
ModStart(m) ==
  /\ mpc[m] = "idle"
  /\ nmod < MaxModerations
  /\ nmod' = nmod + 1
  /\ \E content \in TextIds, content_type \in {"post", "comment"},
        content_id \in PostIds \cup CommentIds,
        random \in JitterMilli :
       LET profanityResult == ProfanityOfText[content]
           toxicityResult == ToxicityOfText[content][random]
       IN /\ mreq' = [mreq EXCEPT ![m] = [content |-> content,
                         content_type |-> content_type, content_id |-> content_id,
                         author_id |-> "system"]]
          /\ mtox' = [mtox EXCEPT ![m] = toxicityResult]
          /\ mdec' = [mdec EXCEPT ![m] =
                        decideModerationAction(profanityResult, toxicityResult)]
  /\ mpc' = [mpc EXCEPT ![m] = "update"]
  /\ UNCHANGED <<evaluations, hotcalls, communityVars, tcall, searchVars, trending_topics, createVars, dbVars, voteVars, mresp>>

\* step 4 with the error of the update not thrown
ModUpdate_ignoreError(m) ==
  /\ mpc[m] = "update"
  /\ \E storeFails \in BOOLEAN :
       LET r == mreq[m]
           after == updateContentStatus(posts, comments, r.content_type,
                                        r.content_id, mdec[m], mtox[m].score)
       IN IF storeFails
          THEN UNCHANGED <<posts, comments>>
          ELSE posts' = after.posts /\ comments' = after.comments
  /\ mpc' = [mpc EXCEPT ![m] = "log"]
  /\ UNCHANGED <<evaluations, hotcalls, communityVars, tcall, searchVars, trending_topics, createVars, votes, moderation_logs, voteVars, mreq, mtox, mdec, mresp, nmod>>

\* step 4: updateContentStatus; its error is thrown and answered with a 500
ModUpdate(m) ==
  /\ mpc[m] = "update"
  /\ \E storeFails \in BOOLEAN :
       LET r == mreq[m]
           after == updateContentStatus(posts, comments, r.content_type,
                                        r.content_id, mdec[m], mtox[m].score)
       IN IF storeFails
          THEN /\ mpc' = [mpc EXCEPT ![m] = "done"]
               /\ mresp' = [mresp EXCEPT ![m] = ModError]
               /\ UNCHANGED <<posts, comments>>
          ELSE /\ posts' = after.posts
               /\ comments' = after.comments
               /\ mpc' = [mpc EXCEPT ![m] = "log"]
               /\ UNCHANGED mresp
  /\ UNCHANGED <<evaluations, hotcalls, communityVars, tcall, searchVars, trending_topics, createVars, votes, moderation_logs, voteVars, mreq, mtox, mdec, nmod>>

\* profiles(id), which moderation_logs.moderator_id references
ProfileIds == Users

\* the column types and CHECK constraints of moderation_logs on a new row
ModerationLogAccepts(row) ==
  /\ row.moderator_id \in ProfileIds
  /\ row.target_type \in {"post", "comment", "user"}
  /\ row.action \in {"approve", "reject", "remove", "flag", "ban", "unban"}

\* insert into moderation_logs: the new table, and whether the insert failed
InsertModerationLog(logs, row) ==
  IF ModerationLogAccepts(row)
  THEN [logs |-> Append(logs, row), error |-> FALSE]
  ELSE [logs |-> logs, error |-> TRUE]

\* step 5: logModerationAction, then the response.  The insert reaches the
\* table ("reached"), or the call ends with an error before it does
\* ("unreachable"), or the call throws; an error is logged and not thrown.
ModLogOutcome(m, outcome) ==
  /\ mpc[m] = "log"
  /\ LET r == mreq[m]
         entry == [moderator_id |-> "system", target_type |-> r.content_type,
                   target_id |-> r.content_id, action |-> mdec[m].action,
                   reason |-> mdec[m].reason, automated |-> TRUE]
     IN /\ moderation_logs' = IF outcome = "reached"
                              THEN InsertModerationLog(moderation_logs, entry).logs
                              ELSE moderation_logs
        /\ mresp' = [mresp EXCEPT ![m] =
                       IF outcome = "throws" THEN ModError
                       ELSE [ok |-> TRUE, decision |-> mdec[m].action,
                             toxicity_score |-> <<mtox[m].score>>,
                             auto_approved |-> mdec[m].action = "approve"]]
  /\ mpc' = [mpc EXCEPT ![m] = "done"]
  /\ UNCHANGED <<evaluations, hotcalls, communityVars, tcall, searchVars, trending_topics, createVars, posts, comments, votes, voteVars, mreq, mtox, mdec, nmod>>

ModLog(m) == \E outcome \in {"reached", "unreachable", "throws"} : ModLogOutcome(m, outcome)

ModReturn(m) ==
  /\ mpc[m] = "done"
  /\ mpc' = [mpc EXCEPT ![m] = "idle"]
  /\ mreq' = [mreq EXCEPT ![m] = NoModRequest]
  /\ mtox' = [mtox EXCEPT ![m] = NoToxicity]
  /\ mdec' = [mdec EXCEPT ![m] = NoDecision]
  /\ mresp' = [mresp EXCEPT ![m] = NoModResponse]
  /\ UNCHANGED <<evaluations, hotcalls, communityVars, tcall, searchVars, trending_topics, createVars, dbVars, voteVars, nmod>>

\* ------------------------------------------- the posts and comments functions
\* Submitted texts: the texts above and one of white space only.
T_blank == <<" ", " ">>
Bodies == Texts @@ [t_blank |-> T_blank]
BodyIds == DOMAIN Bodies
TitleIds == {"t_clean", "t_blank"}

RECURSIVE trimStart(_)
trimStart(s) ==
  IF s # <<>> /\ Head(s) \in SpaceChars THEN trimStart(Tail(s)) ELSE s

RECURSIVE trimEnd(_)
trimEnd(s) ==
  IF s # <<>> /\ s[Len(s)] \in SpaceChars THEN trimEnd(SubSeq(s, 1, Len(s) - 1)) ELSE s

\* String.prototype.trim
trim(s) == trimEnd(trimStart(s))

\* the submitted text whose value is the trimmed value of text t
TrimmedId == [t \in BodyIds |-> CHOOSE u \in BodyIds : Bodies[u] = trim(Bodies[t])]

\* .replace(/[^\w\s]/g, '')
stripNonWord(s) == SelectSeq(s, LAMBDA c : c \in WordChars \cup SpaceChars)

RECURSIVE splitSpaces(_, _, _)
\* .split(/\s+/): the tokens between the runs of white space, empty ones included
splitSpaces(rest, cur, inSep) ==
  IF rest = <<>> THEN <<cur>>
  ELSE IF Head(rest) \in SpaceChars
  THEN IF inSep THEN splitSpaces(Tail(rest), cur, TRUE)
       ELSE <<cur>> \o splitSpaces(Tail(rest), <<>>, TRUE)
  ELSE splitSpaces(Tail(rest), Append(cur, Head(rest)), FALSE)

\* Array.prototype.slice(0, n)
slice(ws, n) == SubSeq(ws, 1, IF Len(ws) < n THEN Len(ws) ELSE n)

\* updateTrendingTopics of the posts function: the words it upserts, in order
postTopicWords(content) ==
  LET words == SelectSeq(splitSpaces(stripNonWord(toLowerCase(content)), <<>>, FALSE),
                         LAMBDA word : Len(word) > 3 /\ Len(word) < 20)
  IN slice(words, 5)

\* the words of title + ' ' + content for the submitted texts, computed once
TopicsOfSubmission ==
  [t \in TitleIds |-> [c \in BodyIds |->
      postTopicWords(Bodies[t] \o <<" ">> \o Bodies[c])]]

\* trending_topics upsert of {topic, frequency: 1, last_updated} on conflict
\* (topic) do update: the row of the topic is set to the given values
TrendingUpsert(tt, word) ==
  [w \in DOMAIN tt \cup {word} |->
     IF w = word THEN [frequency |-> 1, last_updated |-> Now] ELSE tt[w]]

\* the memberships table, which the functions modelled here only read
Memberships ==
  { [user_id |-> "u1", community_id |-> "k1", status |-> "approved"],
    [user_id |-> "u2", community_id |-> "k1", status |-> "pending"] }

IsApprovedMember(userId, communityId) ==
  \E ms \in Memberships :
     ms.user_id = userId /\ ms.community_id = communityId /\ ms.status = "approved"

CreateHandlers == {"k1"}

NoCreateRequest ==
  [kind |-> Null, user |-> Null, title |-> Null, content |-> Null,
   community_id |-> Null, post_id |-> Null, parent_id |-> Null,
   id |-> Null, depth |-> 0]
NoCreateResponse == [success |-> FALSE, id |-> Null, error |-> Null]
CreateOk(id) == [success |-> TRUE, id |-> id, error |-> Null]
CreateError(msg) == [success |-> FALSE, id |-> Null, error |-> msg]

\* "Validate input" of handleCreatePost: the message thrown, or Null
ValidateCreatePost(title, content, community_id) ==
  IF trim(Bodies[title]) = <<>> \/ trim(Bodies[content]) = <<>> \/ community_id = Null
  THEN "Missing required fields"
  ELSE IF Len(Bodies[title]) > 300 \/ Len(Bodies[content]) > 10000
  THEN "Content too long"
  ELSE Null

\* "Validate input" of handleCreateComment
ValidateCreateComment(content, post_id) ==
  IF trim(Bodies[content]) = <<>> \/ post_id = Null
  THEN "Content and post ID are required"
  ELSE IF Len(Bodies[content]) > 5000 THEN "Comment too long (max 5000 characters)"
  ELSE Null

\* gen_random_uuid() of the insert: an id not yet in the table
FreshId(pool, tbl) == CHOOSE id \in pool : id \notin DOMAIN tbl

\* the row handleCreatePost inserts
InsertedPost(r) ==
  [NewPost(TrimmedId[r.content], r.user) EXCEPT
     !.title = TrimmedId[r.title], !.community_id = r.community_id]

\* the row handleCreateComment inserts
InsertedComment(r) ==
  [NewComment(TrimmedId[r.content], r.user, r.post_id) EXCEPT
     !.parent_id = r.parent_id, !.depth = r.depth]

\* the request is parsed, the user authenticated, the action dispatched and the
\* input validated
CreateStart(k) ==
  /\ cpc[k] = "idle"
  /\ ncre < MaxCreates
  /\ ncre' = ncre + 1
  /\ \E auth \in BOOLEAN, user \in Users, content \in BodyIds :
       \E r \in
            { [NoCreateRequest EXCEPT !.kind = "post", !.user = user,
                  !.title = title, !.content = content,
                  !.community_id = community_id] :
                title \in TitleIds, community_id \in {"k1", Null} }
            \cup
            { [NoCreateRequest EXCEPT !.kind = "comment", !.user = user,
                  !.content = content, !.post_id = post_id,
                  !.parent_id = parent_id] :
                post_id \in PostIds \cup {UnknownId, Null},
                parent_id \in CommentIds \cup DOMAIN comments \cup {Null} } :
          LET err == IF ~auth THEN "Invalid authentication"
                     ELSE IF r.kind = "post"
                     THEN ValidateCreatePost(r.title, r.content, r.community_id)
                     ELSE ValidateCreateComment(r.content, r.post_id)
          IN /\ ~((IF r.kind = "post" THEN PostIds ELSE CommentIds) \subseteq
                     DOMAIN (IF r.kind = "post" THEN posts ELSE comments))
             /\ creq' = [creq EXCEPT ![k] = IF auth THEN r ELSE NoCreateRequest]
             /\ IF err # Null
                THEN /\ cpc' = [cpc EXCEPT ![k] = "done"]
                     /\ cresp' = [cresp EXCEPT ![k] = CreateError(err)]
                ELSE /\ cpc' = [cpc EXCEPT ![k] =
                                  IF r.kind = "post" THEN "member" ELSE "findpost"]
                     /\ UNCHANGED cresp
  /\ UNCHANGED <<evaluations, hotcalls, communityVars, tcall, searchVars, dbVars, trending_topics, cwords, voteVars, modVars>>

\* handleCreateComment, "Check if post exists and user can access it"
CreateFindPost(k) ==
  /\ cpc[k] = "findpost"
  /\ \E readFails \in BOOLEAN :
       LET r == creq[k]
           found == ~readFails /\ r.post_id \in posts_with_stats(posts)
       IN IF found
          THEN /\ cpc' = [cpc EXCEPT ![k] = "member"]
               /\ creq' = [creq EXCEPT ![k].community_id = posts[r.post_id].community_id]
               /\ UNCHANGED cresp
          ELSE /\ cpc' = [cpc EXCEPT ![k] = "done"]
               /\ cresp' = [cresp EXCEPT ![k] =
                              CreateError("Post not found or not accessible")]
               /\ UNCHANGED creq
  /\ UNCHANGED <<evaluations, hotcalls, communityVars, tcall, searchVars, dbVars, trending_topics, cwords, ncre, voteVars, modVars>>

\* "Check if user is member of (the) community"
CreateMembership(k) ==
  /\ cpc[k] = "member"
  /\ \E readFails \in BOOLEAN :
       LET r == creq[k]
           member == ~readFails /\ IsApprovedMember(r.user, r.community_id)
       IN IF member
          THEN /\ cpc' = [cpc EXCEPT ![k] =
                            IF r.kind = "comment" /\ r.parent_id # Null
                            THEN "parent" ELSE "insert"]
               /\ UNCHANGED cresp
          ELSE /\ cpc' = [cpc EXCEPT ![k] = "done"]
               /\ cresp' = [cresp EXCEPT ![k] = CreateError(
                              IF r.kind = "post"
                              THEN "You must be a member of this community to post"
                              ELSE "You must be a member of this community to comment")]
  /\ UNCHANGED <<evaluations, hotcalls, communityVars, tcall, searchVars, dbVars, trending_topics, creq, cwords, ncre, voteVars, modVars>>

\* the depth calculation without the nesting limit
CreateParent_noLimit(k) ==
  /\ cpc[k] = "parent"
  /\ \E readFails \in BOOLEAN :
       LET r == creq[k]
           found == ~readFails /\ r.parent_id \in DOMAIN comments
           depth == comments[r.parent_id].depth + 1
       IN IF ~found
          THEN /\ cpc' = [cpc EXCEPT ![k] = "done"]
               /\ cresp' = [cresp EXCEPT ![k] = CreateError("Parent comment not found")]
               /\ UNCHANGED creq
          ELSE /\ cpc' = [cpc EXCEPT ![k] = "insert"]
               /\ creq' = [creq EXCEPT ![k].depth = depth]
               /\ UNCHANGED cresp
  /\ UNCHANGED <<evaluations, hotcalls, communityVars, tcall, searchVars, dbVars, trending_topics, cwords, ncre, voteVars, modVars>>

\* handleCreateComment, "Calculate comment depth if it's a reply"
CreateParent(k) ==
  /\ cpc[k] = "parent"
  /\ \E readFails \in BOOLEAN :
       LET r == creq[k]
           found == ~readFails /\ r.parent_id \in DOMAIN comments
           depth == comments[r.parent_id].depth + 1
       IN IF ~found
          THEN /\ cpc' = [cpc EXCEPT ![k] = "done"]
               /\ cresp' = [cresp EXCEPT ![k] = CreateError("Parent comment not found")]
               /\ UNCHANGED creq
          ELSE IF depth > 5
          THEN /\ cpc' = [cpc EXCEPT ![k] = "done"]
               /\ cresp' = [cresp EXCEPT ![k] =
                              CreateError("Maximum comment nesting depth reached")]
               /\ UNCHANGED creq
          ELSE /\ cpc' = [cpc EXCEPT ![k] = "insert"]
               /\ creq' = [creq EXCEPT ![k].depth = depth]
               /\ UNCHANGED cresp
  /\ UNCHANGED <<evaluations, hotcalls, communityVars, tcall, searchVars, dbVars, trending_topics, cwords, ncre, voteVars, modVars>>

\* "Create the post" / "Create the comment": the insert, with the row trigger of
\* comments (a new comment is not approved, so comment_count is not changed).
\* The alias of an anonymous submission is kept in a table not modelled here.
\* parent_id UUID REFERENCES comments(id): the insert of a reply whose parent
\* is gone by now ends with an error.
CreateInsert(k) ==
  /\ cpc[k] = "insert"
  /\ \E insertFails \in BOOLEAN :
       LET r == creq[k]
           parentGone == r.kind = "comment" /\ r.parent_id # Null
                           /\ r.parent_id \notin DOMAIN comments
       IN IF insertFails \/ parentGone
          THEN /\ cpc' = [cpc EXCEPT ![k] = "done"]
               /\ cresp' = [cresp EXCEPT ![k] = CreateError(StoreError)]
               /\ UNCHANGED <<posts, comments, creq>>
          ELSE /\ IF r.kind = "post"
                  THEN LET id == FreshId(PostIds, posts)
                       IN /\ posts' = [p \in DOMAIN posts \cup {id} |->
                                         IF p = id THEN InsertedPost(r) ELSE posts[p]]
                          /\ creq' = [creq EXCEPT ![k].id = id]
                          /\ UNCHANGED comments
                  ELSE LET id == FreshId(CommentIds, comments)
                           row == InsertedComment(r)
                       IN /\ comments' = [c \in DOMAIN comments \cup {id} |->
                                            IF c = id THEN row ELSE comments[c]]
                          /\ posts' = update_post_comment_count("INSERT", row, row, posts)
                          /\ creq' = [creq EXCEPT ![k].id = id]
               /\ cpc' = [cpc EXCEPT ![k] = "moderate"]
               /\ UNCHANGED cresp
  /\ UNCHANGED <<evaluations, hotcalls, communityVars, tcall, searchVars, votes, moderation_logs, trending_topics, cwords, ncre,
                 voteVars, modVars>>

\* triggerModerationCheck: the moderation function is invoked with the content
\* as submitted, the kind and the id of the new row
CreateInvokeModeration(k, m) ==
  /\ cpc[k] = "moderate"
  /\ ModStart(m)
  /\ mreq'[m] = [content |-> creq[k].content, content_type |-> creq[k].kind,
                 content_id |-> creq[k].id, author_id |-> "system"]

\* the invocation has ended (with any response, or without reaching the
\* function): its outcome is not looked at; handleCreatePost goes on to the
\* trending topics, handleCreateComment to its response
CreateAfterModeration(k, m) ==
  /\ cpc[k] = "moderate"
  /\ mpc[m] \in {"idle", "done"}
  /\ mpc' = [mpc EXCEPT ![m] = "idle"]
  /\ mreq' = [mreq EXCEPT ![m] = NoModRequest]
  /\ mtox' = [mtox EXCEPT ![m] = NoToxicity]
  /\ mdec' = [mdec EXCEPT ![m] = NoDecision]
  /\ mresp' = [mresp EXCEPT ![m] = NoModResponse]
  /\ cpc' = [cpc EXCEPT ![k] = IF creq[k].kind = "post" THEN "trending" ELSE "respond"]
  /\ cwords' = [cwords EXCEPT ![k] =
                  IF creq[k].kind = "post"
                  THEN TopicsOfSubmission[creq[k].title][creq[k].content]
                  ELSE <<>>]
  /\ UNCHANGED <<evaluations, hotcalls, communityVars, tcall, searchVars, dbVars, trending_topics, creq, cresp, ncre, voteVars, nmod>>

\* updateTrendingTopics: one upsert of the loop; its error is not looked at, an
\* upsert that throws ends the request in the catch of the function
CreateTrending(k) ==
  /\ cpc[k] = "trending"
  /\ cwords[k] # <<>>
  /\ \E outcome \in {"upserted", "error", "throws"} :
       /\ trending_topics' = IF outcome = "upserted"
                             THEN TrendingUpsert(trending_topics, Head(cwords[k]))
                             ELSE trending_topics
       /\ IF outcome = "throws"
          THEN /\ cpc' = [cpc EXCEPT ![k] = "done"]
               /\ cresp' = [cresp EXCEPT ![k] = CreateError(StoreError)]
               /\ cwords' = [cwords EXCEPT ![k] = <<>>]
          ELSE /\ cwords' = [cwords EXCEPT ![k] = Tail(@)]
               /\ UNCHANGED <<cpc, cresp>>
  /\ UNCHANGED <<evaluations, hotcalls, communityVars, tcall, searchVars, dbVars, creq, ncre, voteVars, modVars>>

\* the success response
CreateRespond(k) ==
  /\ \/ cpc[k] = "respond"
     \/ cpc[k] = "trending" /\ cwords[k] = <<>>
  /\ cpc' = [cpc EXCEPT ![k] = "done"]
  /\ cresp' = [cresp EXCEPT ![k] = CreateOk(creq[k].id)]
  /\ UNCHANGED <<evaluations, hotcalls, communityVars, tcall, searchVars, dbVars, trending_topics, creq, cwords, ncre, voteVars, modVars>>

\* the response is sent; the handler is free for the next request
CreateReturn(k) ==
  /\ cpc[k] = "done"
  /\ cpc' = [cpc EXCEPT ![k] = "idle"]
  /\ creq' = [creq EXCEPT ![k] = NoCreateRequest]
  /\ cresp' = [cresp EXCEPT ![k] = NoCreateResponse]
  /\ UNCHANGED <<evaluations, hotcalls, communityVars, tcall, searchVars, dbVars, trending_topics, cwords, ncre, voteVars, modVars>>

\* ---------------------------------------------------------- specifications
\* ------------------------------------------------------ updateTrendingTopics
\* Texts handed to updateTrendingTopics.
T_fox == <<"T","h","e"," ","Q","u","i","c","k"," ","B","r","o","w","n"," ",
           "F","o","x","!","!">>
T_dogs == <<"q","u","i","c","k"," ","b","r","o","w","n"," ","f","o","x","e","s"," ",
            "j","u","m","p"," ","o","v","e","r"," ","l","a","z","y"," ",
            "d","o","g","s">>
TopicTexts == [t_fox |-> T_fox, t_dogs |-> T_dogs]
TopicTextIds == DOMAIN TopicTexts

\* updateTrendingTopics of the search function: the words it upserts, in order
searchTopicWords(query) ==
  LET words == SelectSeq(splitSpaces(stripNonWord(toLowerCase(query)), <<>>, FALSE),
                         LAMBDA word : Len(word) > 2 /\ Len(word) < 20)
  IN slice(words, 3)

\* the words of each caller for each text, computed once
TopicWordsOf ==
  [caller \in {"posts", "search"} |-> [t \in TopicTextIds |->
      IF caller = "posts" THEN postTopicWords(TopicTexts[t])
      ELSE searchTopicWords(TopicTexts[t])]]

\* the rows of trending_topics before the calls modelled here
StoredTopics ==
  (<<"b","r","o","w","n">> :> [frequency |-> 4, last_updated |-> T0])

\* One run of updateTrendingTopics is tcall[w]: the text, the words extracted,
\* the index of the next word of the loop, the words whose upsert the store
\* accepted, and whether an upsert threw out of the loop.
TopicWriters == {"w1", "w2"}
NoTopicCall == [caller |-> Null, text |-> Null, words |-> <<>>, next |-> 1,
                upserted |-> <<>>, thrown |-> FALSE]

TopicRunning(w) ==
  tcall[w].caller # Null /\ ~tcall[w].thrown /\ tcall[w].next <= Len(tcall[w].words)

TopicEnded(w) ==
  tcall[w].caller # Null /\ (tcall[w].thrown \/ tcall[w].next > Len(tcall[w].words))

\* the words are extracted from the text
TopicBegin(w, caller, text) ==
  /\ tcall[w].caller = Null
  /\ tcall' = [tcall EXCEPT ![w] =
                 [NoTopicCall EXCEPT !.caller = caller, !.text = text,
                                     !.words = TopicWordsOf[caller][text]]]

\* one pass of the loop: the upsert of the next word.  The error an upsert
\* returns is not looked at by either function; an upsert that throws is caught
\* inside the loop of the search function and leaves the loop of the posts
\* function.
TopicUpsert(w) ==
  /\ TopicRunning(w)
  /\ \E outcome \in {"upserted", "error", "throws"} :
       LET word == tcall[w].words[tcall[w].next]
       IN /\ trending_topics' = IF outcome = "upserted"
                                THEN TrendingUpsert(trending_topics, word)
                                ELSE trending_topics
          /\ tcall' = [tcall EXCEPT ![w] =
                IF outcome = "throws" /\ tcall[w].caller = "posts"
                THEN [@ EXCEPT !.thrown = TRUE]
                ELSE [@ EXCEPT !.next = @ + 1,
                               !.upserted = IF outcome = "upserted"
                                            THEN Append(@, word) ELSE @]]
  /\ UNCHANGED <<dbVars, voteVars, modVars, createVars, searchVars,
                 evaluations, hotcalls, communityVars>>

\* a submission or a search calls updateTrendingTopics
TopicStart(w) ==
  /\ \E caller \in {"posts", "search"}, text \in TopicTextIds :
        TopicBegin(w, caller, text)
  /\ UNCHANGED <<dbVars, trending_topics, voteVars, modVars, createVars, searchVars,
                 evaluations, hotcalls, communityVars>>

\* ------------------------------------------------------ the search function
\* The queries, and the titles, contents, names and descriptions of the store
\* that is searched.
SearchTexts ==
  [q_fox |-> <<"q","u","i","c","k"," ","f","o","x">>,
   q_news |-> <<" ","n","e","w","s"," ">>,
   q_blank |-> <<" ", " ">>,
   q_empty |-> <<>>,
   t_news |-> <<"N","e","w","s">>,
   n_foxes |-> <<"f","o","x","e","s">>,
   d_fans |-> <<"Q","u","i","c","k"," ","f","o","x"," ","f","a","n","s">>]
QueryIds == {"q_fox", "q_news", "q_blank", "q_empty"}

\* posts as the moderation left them: p1 to p3 approved, p4 still pending
SearchablePosts ==
  LET row(title, content, approved) ==
        SetColumns(NewPost(content, "u1"),
                   [title |-> title, is_approved |-> approved,
                    moderation_status |-> IF approved THEN "approved" ELSE "pending"])
  IN [p1 |-> row("q_fox", "q_fox", TRUE), p2 |-> row("t_news", "q_fox", TRUE),
      p3 |-> row("q_fox", "t_news", TRUE), p4 |-> row("q_fox", "q_fox", FALSE)]

\* the communities table, which the search function only reads
Communities ==
  [k1 |-> [name |-> "n_foxes", description |-> "d_fans", is_active |-> TRUE],
   k2 |-> [name |-> "n_foxes", description |-> "d_fans", is_active |-> FALSE]]

\* .textSearch(column, query, {type: 'websearch', config: 'english'}): every
\* word of the query is a word of the column.  The texts above hold letters
\* and spaces only, no stop word and no inflected form, so that the lexemes
\* are the lowercased words.
textSearch(column, query) ==
  LET tokens(s) == {w \in {splitSpaces(toLowerCase(s), <<>>, FALSE)[i] :
                            i \in 1..Len(splitSpaces(toLowerCase(s), <<>>, FALSE))} :
                      w # <<>>}
  IN tokens(query) # {} /\ tokens(query) \subseteq tokens(column)

\* column ILIKE '%query%'
ilike(column, query) == includes(toLowerCase(column), toLowerCase(query))

RECURSIVE calculateRelevance(_, _)
\* calculateRelevance in halves, queryWords being query.toLowerCase().split(/\s+/)
\* and contentLower the lowered content: 1 for a word the content includes and
\* 0.5 for each match of \bword\b
calculateRelevance(queryWords, contentLower) ==
  IF queryWords = <<>> THEN 0
  ELSE LET word == Head(queryWords)
           matches == {i \in 1..(Len(contentLower) - Len(word) + 1) :
                         /\ SubSeq(contentLower, i, i + Len(word) - 1) = word
                         /\ wordBoundary(contentLower, i)
                         /\ wordBoundary(contentLower, i + Len(word))}
       IN (IF includes(contentLower, word) THEN 2 + Cardinality(matches) ELSE 0)
          + calculateRelevance(Tail(queryWords), contentLower)

\* For each query, trimmed as the handler passes it on: the posts the two
\* queries on posts_with_stats match, the communities the query on
\* communities_with_membership matches, the relevance of each item and the
\* words of updateTrendingTopics; computed once.
SearchOf ==
  [q \in QueryIds |->
     LET query == trim(SearchTexts[q])
         queryWords == splitSpaces(toLowerCase(query), <<>>, FALSE)
         visible == {id \in posts_with_stats(SearchablePosts) :
                       SearchablePosts[id].is_approved}
         text(a, b) == toLowerCase(SearchTexts[a] \o <<" ">> \o SearchTexts[b])
     IN [title |-> {id \in visible :
                      textSearch(SearchTexts[SearchablePosts[id].title], query)},
         content |-> {id \in visible :
                        textSearch(SearchTexts[SearchablePosts[id].content], query)},
         communities |-> {id \in DOMAIN Communities :
                            /\ Communities[id].is_active
                            /\ \/ ilike(SearchTexts[Communities[id].name], query)
                               \/ ilike(SearchTexts[Communities[id].description], query)},
         relevance |->
            [id \in DOMAIN SearchablePosts \cup DOMAIN Communities |->
               IF id \in DOMAIN SearchablePosts
               THEN calculateRelevance(queryWords,
                       text(SearchablePosts[id].title, SearchablePosts[id].content))
               ELSE calculateRelevance(queryWords,
                       text(Communities[id].name, Communities[id].description))],
         words |-> searchTopicWords(query)]]

\* the rows a query with .limit(n) and no order may return
Fetches(matching, n) ==
  LET k == IF Cardinality(matching) < n THEN Cardinality(matching) ELSE n
  IN {f \in [1..k -> matching] : \A i, j \in 1..k : f[i] = f[j] => i = j}

RECURSIVE uniquePosts(_, _)
\* allPosts.filter((post, index, self) => index === self.findIndex(p => p.id === post.id))
uniquePosts(allPosts, seen) ==
  IF allPosts = <<>> THEN <<>>
  ELSE IF Head(allPosts) \in seen THEN uniquePosts(Tail(allPosts), seen)
  ELSE <<Head(allPosts)>> \o uniquePosts(Tail(allPosts), seen \cup {Head(allPosts)})

\* results.push({type, data, relevance}) for each of ids
SearchResults(q, type, ids) ==
  [i \in 1..Len(ids) |->
     [type |-> type, id |-> ids[i], relevance |-> SearchOf[q].relevance[ids[i]]]]

RECURSIVE sortByRelevance(_)
\* results.sort((a, b) => b.relevance - a.relevance), a stable sort
sortByRelevance(results) ==
  IF results = <<>> THEN <<>>
  ELSE LET last == results[Len(results)]
           sorted == sortByRelevance(SubSeq(results, 1, Len(results) - 1))
           ahead == SelectSeq(sorted, LAMBDA r : r.relevance >= last.relevance)
           behind == SelectSeq(sorted, LAMBDA r : r.relevance < last.relevance)
       IN ahead \o <<last>> \o behind

SearchHandlers == {"s1"}
SearchLimits == {1, 2, 4}
NoSearchRequest == [user |-> Null, query |-> Null, type |-> Null, limit |-> 0]
NoSearchLocals == [allPosts |-> <<>>, results |-> <<>>, returned |-> <<>>,
                   words |-> <<>>]
NoSearchResponse == [success |-> FALSE, results |-> <<>>, error |-> Null]
SearchError(msg) == [success |-> FALSE, results |-> <<>>, error |-> msg]

\* the checks of the handler without the one of the query
ValidateSearchRequest_anyQuery(auth, query) ==
  IF ~auth THEN "Invalid authentication" ELSE Null

\* the authentication, then !query.trim(): the message thrown, or Null
ValidateSearchRequest(auth, query) ==
  IF ~auth THEN "Invalid authentication"
  ELSE IF trim(SearchTexts[query]) = <<>> THEN "Search query is required"
  ELSE Null

\* the request is parsed, the user authenticated, the query checked
SearchStart(s) ==
  /\ spc[s] = "idle"
  /\ nsea < MaxSearches
  /\ nsea' = nsea + 1
  /\ \E auth \in BOOLEAN, user \in Users, query \in QueryIds,
        type \in {"all", "posts", "communities"}, limit \in SearchLimits :
       LET err == ValidateSearchRequest(auth, query)
       IN /\ sreq' = [sreq EXCEPT ![s] =
                        [user |-> IF auth THEN user ELSE Null, query |-> query,
                         type |-> type, limit |-> limit]]
          /\ IF err # Null
             THEN /\ spc' = [spc EXCEPT ![s] = "done"]
                  /\ sresp' = [sresp EXCEPT ![s] = SearchError(err)]
             ELSE /\ spc' = [spc EXCEPT ![s] =
                               IF type = "communities" THEN "communities" ELSE "title"]
                  /\ UNCHANGED sresp
  /\ UNCHANGED <<dbVars, trending_topics, voteVars, modVars, createVars, sres,
                 evaluations, hotcalls, communityVars, tcall>>

\* performSearch, "Search posts": the query on the titles
SearchTitle(s) ==
  /\ spc[s] = "title"
  /\ \/ /\ spc' = [spc EXCEPT ![s] = "done"]
        /\ sresp' = [sresp EXCEPT ![s] = SearchError(StoreError)]
        /\ UNCHANGED sres
     \/ /\ \E posts_ \in Fetches(SearchOf[sreq[s].query].title, sreq[s].limit \div 2) :
             sres' = [sres EXCEPT ![s].allPosts = posts_]
        /\ spc' = [spc EXCEPT ![s] = "content"]
        /\ UNCHANGED sresp
  /\ UNCHANGED <<dbVars, trending_topics, voteVars, modVars, createVars, sreq, nsea,
                 evaluations, hotcalls, communityVars, tcall>>

\* the end of performSearch and the words of updateTrendingTopics
SearchSorted(s, results) ==
  [sres[s] EXCEPT !.results = results,
                  !.returned = slice(sortByRelevance(results), sreq[s].limit),
                  !.words = SearchOf[sreq[s].query].words]

\* "Also search by content", "Combine and deduplicate posts"
SearchContent(s) ==
  /\ spc[s] = "content"
  /\ \/ /\ spc' = [spc EXCEPT ![s] = "done"]
        /\ sresp' = [sresp EXCEPT ![s] = SearchError(StoreError)]
        /\ UNCHANGED sres
     \/ /\ \E contentPosts \in
               Fetches(SearchOf[sreq[s].query].content, sreq[s].limit \div 2) :
             LET allPosts == sres[s].allPosts \o contentPosts
                 results == SearchResults(sreq[s].query, "post",
                                          uniquePosts(allPosts, {}))
             IN sres' = [sres EXCEPT ![s] =
                           IF sreq[s].type = "all"
                           THEN [@ EXCEPT !.allPosts = allPosts, !.results = results]
                           ELSE [SearchSorted(s, results) EXCEPT !.allPosts = allPosts]]
        /\ spc' = [spc EXCEPT ![s] =
                     IF sreq[s].type = "all" THEN "communities" ELSE "trending"]
        /\ UNCHANGED sresp
  /\ UNCHANGED <<dbVars, trending_topics, voteVars, modVars, createVars, sreq, nsea,
                 evaluations, hotcalls, communityVars, tcall>>

\* "Search communities", "Sort by relevance", slice
SearchCommunities(s) ==
  /\ spc[s] = "communities"
  /\ \/ /\ spc' = [spc EXCEPT ![s] = "done"]
        /\ sresp' = [sresp EXCEPT ![s] = SearchError(StoreError)]
        /\ UNCHANGED sres
     \/ /\ \E found \in
               Fetches(SearchOf[sreq[s].query].communities, sreq[s].limit) :
             sres' = [sres EXCEPT ![s] =
                        SearchSorted(s, sres[s].results \o
                           SearchResults(sreq[s].query, "community", found))]
        /\ spc' = [spc EXCEPT ![s] = "trending"]
        /\ UNCHANGED sresp
  /\ UNCHANGED <<dbVars, trending_topics, voteVars, modVars, createVars, sreq, nsea,
                 evaluations, hotcalls, communityVars, tcall>>

\* updateTrendingTopics: one upsert of the loop, in its try/catch
SearchTrending(s) ==
  /\ spc[s] = "trending"
  /\ sres[s].words # <<>>
  /\ \E outcome \in {"upserted", "error", "throws"} :
       trending_topics' = IF outcome = "upserted"
                          THEN TrendingUpsert(trending_topics, Head(sres[s].words))
                          ELSE trending_topics
  /\ sres' = [sres EXCEPT ![s].words = Tail(@)]
  /\ UNCHANGED <<dbVars, voteVars, modVars, createVars, spc, sreq, sresp, nsea,
                 evaluations, hotcalls, communityVars, tcall>>

\* the success response
SearchRespond(s) ==
  /\ spc[s] = "trending"
  /\ sres[s].words = <<>>
  /\ spc' = [spc EXCEPT ![s] = "done"]
  /\ sresp' = [sresp EXCEPT ![s] =
                 [success |-> TRUE, results |-> sres[s].returned, error |-> Null]]
  /\ UNCHANGED <<dbVars, trending_topics, voteVars, modVars, createVars, sreq, sres,
                 nsea, evaluations, hotcalls, communityVars, tcall>>

\* the response is sent; the handler is free for the next request
SearchReturn(s) ==
  /\ spc[s] = "done"
  /\ spc' = [spc EXCEPT ![s] = "idle"]
  /\ sreq' = [sreq EXCEPT ![s] = NoSearchRequest]
  /\ sres' = [sres EXCEPT ![s] = NoSearchLocals]
  /\ sresp' = [sresp EXCEPT ![s] = NoSearchResponse]
  /\ UNCHANGED <<dbVars, trending_topics, voteVars, modVars, createVars, nsea,
                 evaluations, hotcalls, communityVars, tcall>>

\* -------------------------------------------------- the communities function
N_Duk == <<"D","u","k">>
N_duk == <<"d","u","k">>
N_cse == <<"c","s","e">>
N_bad == <<"a"," ","b">>
D_ok == <<"d">>
CommunityNames == {N_Duk, N_duk, N_bad}
CommunityDescriptions == {D_ok, <<" ">>}
CommunityIds == {"n1", "n2"}
MembershipIds == 1..3
CommunityHandlers == {"g1", "g2"}

\* trigger update_community_member_count_trigger, AFTER INSERT OR UPDATE OR DELETE
\* ON memberships FOR EACH ROW: the new communities table
update_community_member_count(TG_OP, OLDROW, NEWROW, cs) ==
  LET add(id, by) == [c \in DOMAIN cs |->
                        IF c = id THEN [cs[c] EXCEPT !.member_count = @ + by] ELSE cs[c]]
  IN IF TG_OP = "INSERT"
     THEN IF NEWROW.status = "approved" THEN add(NEWROW.community_id, 1) ELSE cs
     ELSE IF TG_OP = "UPDATE"
     THEN IF OLDROW.status # "approved" /\ NEWROW.status = "approved"
          THEN add(NEWROW.community_id, 1)
          ELSE IF OLDROW.status = "approved" /\ NEWROW.status # "approved"
          THEN add(NEWROW.community_id, -1)
          ELSE cs
     ELSE IF OLDROW.status = "approved" THEN add(OLDROW.community_id, -1) ELSE cs

\* INSERT INTO communities: member_count takes its default 1; name is UNIQUE
InsertCommunity(cs, id, name, privacy_type, owner_id) ==
  IF \E c \in DOMAIN cs : cs[c].name = name
  THEN [communities |-> cs, error |-> UniqueViolation]
  ELSE [communities |-> [c \in DOMAIN cs \cup {id} |->
                           IF c = id
                           THEN [name |-> name, privacy_type |-> privacy_type,
                                 owner_id |-> owner_id, member_count |-> 1]
                           ELSE cs[c]],
        error |-> Null]

\* gen_random_uuid(): an id no membership holds
FreshMembershipId(ms) == CHOOSE n \in 1..(Cardinality(ms) + 1) : \A m \in ms : m.id # n

\* INSERT INTO memberships of one row without id, as .insert(row) and as
\* .upsert(row) without onConflict (ON CONFLICT (id)) make it: the foreign key
\* and UNIQUE(user_id, community_id) are checked, then the row trigger runs
InsertMembership(ms, cs, user_id, community_id, role, status) ==
  LET row == [id |-> FreshMembershipId(ms), user_id |-> user_id,
              community_id |-> community_id, role |-> role, status |-> status]
  IN IF community_id \notin DOMAIN cs
     THEN [memberships |-> ms, communities |-> cs, error |-> ForeignKeyViolation]
     ELSE IF \E m \in ms : m.user_id = user_id /\ m.community_id = community_id
     THEN [memberships |-> ms, communities |-> cs, error |-> UniqueViolation]
     ELSE [memberships |-> ms \cup {row},
           communities |-> update_community_member_count("INSERT", row, row, cs),
           error |-> Null]

\* .update({status}).eq('id', id); an id that matches no row updates nothing
UpdateMembershipStatus(ms, cs, id, status) ==
  IF \E m \in ms : m.id = id
  THEN LET old == CHOOSE m \in ms : m.id = id
           new == [old EXCEPT !.status = status]
       IN [memberships |-> (ms \ {old}) \cup {new},
           communities |-> update_community_member_count("UPDATE", old, new, cs)]
  ELSE [memberships |-> ms, communities |-> cs]

NoCommunityRequest ==
  [action |-> Null, user |-> Null, name |-> <<>>, description |-> <<>>,
   privacy_type |-> Null, community_id |-> Null, membership_id |-> 0,
   approve |-> FALSE]
NoCommunityLocals == [community_id |-> Null, privacy_type |-> Null, owner_id |-> Null]
NoCommunityResponse == [success |-> FALSE, status |-> Null, error |-> Null]
CommunityOk(status) == [success |-> TRUE, status |-> status, error |-> Null]
CommunityError(msg) == [success |-> FALSE, status |-> Null, error |-> msg]

\* "Validate input" of handleCreateCommunity: the message thrown, or Null
ValidateCreateCommunity(name, description) ==
  IF trim(name) = <<>> \/ trim(description) = <<>>
  THEN "Community name and description are required"
  ELSE IF Len(name) < 3 \/ Len(name) > 20
  THEN "Community name must be between 3 and 20 characters"
  ELSE IF Len(description) > 500 THEN "Description must be less than 500 characters"
  ELSE IF \E i \in 1..Len(name) : name[i] \notin WordChars
  THEN "Community name can only contain letters, numbers, and underscores"
  ELSE Null

\* the request is parsed, the user authenticated, the action dispatched; a
\* 'create' request is validated
CommunityStart(g) ==
  /\ gpc[g] = "idle"
  /\ ncom < MaxCommunityRequests
  /\ ncom' = ncom + 1
  /\ \E auth \in BOOLEAN, user \in Users :
       \E r \in
            { [NoCommunityRequest EXCEPT !.action = "create", !.user = user,
                  !.name = name, !.description = description,
                  !.privacy_type = privacy_type] :
                name \in CommunityNames, description \in CommunityDescriptions,
                privacy_type \in {"public", "private"} }
            \cup
            { [NoCommunityRequest EXCEPT !.action = "join", !.user = user,
                  !.community_id = community_id] :
                community_id \in CommunityIds }
            \cup
            { [NoCommunityRequest EXCEPT !.action = "approve_membership",
                  !.user = user, !.membership_id = membership_id,
                  !.approve = approve] :
                membership_id \in MembershipIds, approve \in BOOLEAN } :
          LET err == IF ~auth THEN "Invalid authentication"
                     ELSE IF r.action = "create"
                     THEN ValidateCreateCommunity(r.name, r.description)
                     ELSE Null
          IN /\ greq' = [greq EXCEPT ![g] = IF auth THEN r ELSE NoCommunityRequest]
             /\ IF err # Null
                THEN /\ gpc' = [gpc EXCEPT ![g] = "done"]
                     /\ gresp' = [gresp EXCEPT ![g] = CommunityError(err)]
                ELSE /\ gpc' = [gpc EXCEPT ![g] =
                                  IF r.action = "create" THEN "create_check"
                                  ELSE IF r.action = "join" THEN "join_community"
                                  ELSE "approve_find"]
                     /\ UNCHANGED gresp
  /\ UNCHANGED <<communities, memberships, gloc>>
  /\ UNCHANGED <<evaluations, hotcalls, tcall, searchVars, dbVars, trending_topics,
                 voteVars, modVars, createVars>>

\* handleCreateCommunity, "Check for existing community name"; a failed read
\* gives no row
CreateCommunityCheck(g) ==
  /\ gpc[g] = "create_check"
  /\ \E readFails \in BOOLEAN :
       LET existingCommunity ==
             /\ ~readFails
             /\ \E c \in DOMAIN communities :
                   communities[c].name = toLowerCase(greq[g].name)
       IN IF existingCommunity
          THEN /\ gpc' = [gpc EXCEPT ![g] = "done"]
               /\ gresp' = [gresp EXCEPT ![g] =
                              CommunityError("A community with this name already exists")]
          ELSE /\ gpc' = [gpc EXCEPT ![g] = "create_insert"]
               /\ UNCHANGED gresp
  /\ UNCHANGED <<communities, memberships, greq, gloc, ncom>>
  /\ UNCHANGED <<evaluations, hotcalls, tcall, searchVars, dbVars, trending_topics,
                 voteVars, modVars, createVars>>

\* "Create the community": the insert (a new row while the model has an id left)
CreateCommunityInsert(g) ==
  /\ gpc[g] = "create_insert"
  /\ \/ DOMAIN communities # CommunityIds
     \/ \E c \in DOMAIN communities : communities[c].name = toLowerCase(greq[g].name)
  /\ \E storeFails \in BOOLEAN :
       LET id == IF DOMAIN communities # CommunityIds
                 THEN FreshId(CommunityIds, communities) ELSE Null
           stmt == InsertCommunity(communities, id, toLowerCase(greq[g].name),
                                   greq[g].privacy_type, greq[g].user)
       IN IF storeFails \/ stmt.error # Null
          THEN /\ gpc' = [gpc EXCEPT ![g] = "done"]
               /\ gresp' = [gresp EXCEPT ![g] = CommunityError(
                              IF storeFails THEN StoreError ELSE stmt.error)]
               /\ UNCHANGED <<communities, gloc>>
          ELSE /\ communities' = stmt.communities
               /\ gloc' = [gloc EXCEPT ![g].community_id = id]
               /\ gpc' = [gpc EXCEPT ![g] = "create_member"]
               /\ UNCHANGED gresp
  /\ UNCHANGED <<memberships, greq, ncom>>
  /\ UNCHANGED <<evaluations, hotcalls, tcall, searchVars, dbVars, trending_topics,
                 voteVars, modVars, createVars>>

\* "Auto-approve owner as member": the insert of the membership, and the response
CreateCommunityMember(g) ==
  /\ gpc[g] = "create_member"
  /\ \E storeFails \in BOOLEAN :
       LET stmt == InsertMembership(memberships, communities, greq[g].user,
                                    gloc[g].community_id, "admin", "approved")
       IN IF storeFails \/ stmt.error # Null
          THEN /\ gresp' = [gresp EXCEPT ![g] = CommunityError(
                              IF storeFails THEN StoreError ELSE stmt.error)]
               /\ UNCHANGED <<communities, memberships>>
          ELSE /\ memberships' = stmt.memberships
               /\ communities' = stmt.communities
               /\ gresp' = [gresp EXCEPT ![g] = CommunityOk(Null)]
  /\ gpc' = [gpc EXCEPT ![g] = "done"]
  /\ UNCHANGED <<greq, gloc, ncom>>
  /\ UNCHANGED <<evaluations, hotcalls, tcall, searchVars, dbVars, trending_topics,
                 voteVars, modVars, createVars>>

\* handleJoinCommunity, "Check if community exists"; a failed read gives no row
JoinFindCommunity(g) ==
  /\ gpc[g] = "join_community"
  /\ \E readFails \in BOOLEAN :
       IF readFails \/ greq[g].community_id \notin DOMAIN communities
       THEN /\ gpc' = [gpc EXCEPT ![g] = "done"]
            /\ gresp' = [gresp EXCEPT ![g] = CommunityError("Community not found")]
            /\ UNCHANGED gloc
       ELSE /\ gloc' = [gloc EXCEPT ![g].privacy_type =
                          communities[greq[g].community_id].privacy_type]
            /\ gpc' = [gpc EXCEPT ![g] = "join_member"]
            /\ UNCHANGED gresp
  /\ UNCHANGED <<communities, memberships, greq, ncom>>
  /\ UNCHANGED <<evaluations, hotcalls, tcall, searchVars, dbVars, trending_topics,
                 voteVars, modVars, createVars>>

\* "Check if already a member"; a failed read gives no row
JoinFindMembership(g) ==
  /\ gpc[g] = "join_member"
  /\ \E readFails \in BOOLEAN :
       LET found == {m \in memberships :
                       /\ ~readFails
                       /\ m.user_id = greq[g].user
                       /\ m.community_id = greq[g].community_id}
       IN IF \E m \in found : m.status = "approved"
          THEN /\ gpc' = [gpc EXCEPT ![g] = "done"]
               /\ gresp' = [gresp EXCEPT ![g] =
                              CommunityError("You are already a member of this community")]
          ELSE IF \E m \in found : m.status = "pending"
          THEN /\ gpc' = [gpc EXCEPT ![g] = "done"]
               /\ gresp' = [gresp EXCEPT ![g] =
                              CommunityError("Your membership request is already pending approval")]
          ELSE /\ gpc' = [gpc EXCEPT ![g] = "join_upsert"]
               /\ UNCHANGED gresp
  /\ UNCHANGED <<communities, memberships, greq, gloc, ncom>>
  /\ UNCHANGED <<evaluations, hotcalls, tcall, searchVars, dbVars, trending_topics,
                 voteVars, modVars, createVars>>

\* "Create or update membership": the upsert without onConflict, and the response
JoinUpsert(g) ==
  /\ gpc[g] = "join_upsert"
  /\ \E storeFails \in BOOLEAN :
       LET status == IF gloc[g].privacy_type = "public" THEN "approved" ELSE "pending"
           stmt == InsertMembership(memberships, communities, greq[g].user,
                                    greq[g].community_id, "member", status)
       IN IF storeFails \/ stmt.error # Null
          THEN /\ gresp' = [gresp EXCEPT ![g] = CommunityError(
                              IF storeFails THEN StoreError ELSE stmt.error)]
               /\ UNCHANGED <<communities, memberships>>
          ELSE /\ memberships' = stmt.memberships
               /\ communities' = stmt.communities
               /\ gresp' = [gresp EXCEPT ![g] = CommunityOk(status)]
  /\ gpc' = [gpc EXCEPT ![g] = "done"]
  /\ UNCHANGED <<greq, gloc, ncom>>
  /\ UNCHANGED <<evaluations, hotcalls, tcall, searchVars, dbVars, trending_topics,
                 voteVars, modVars, createVars>>

\* handleApproveMembership, "Get membership details", with the owner of its
\* community; a failed read gives no row
ApproveFind(g) ==
  /\ gpc[g] = "approve_find"
  /\ \E readFails \in BOOLEAN :
       LET found == {m \in memberships : ~readFails /\ m.id = greq[g].membership_id}
       IN IF found = {}
          THEN /\ gpc' = [gpc EXCEPT ![g] = "done"]
               /\ gresp' = [gresp EXCEPT ![g] =
                              CommunityError("Membership request not found")]
               /\ UNCHANGED gloc
          ELSE /\ \E m \in found :
                    gloc' = [gloc EXCEPT ![g] =
                               [@ EXCEPT !.community_id = m.community_id,
                                         !.owner_id = communities[m.community_id].owner_id]]
               /\ gpc' = [gpc EXCEPT ![g] = "approve_permission"]
               /\ UNCHANGED gresp
  /\ UNCHANGED <<communities, memberships, greq, ncom>>
  /\ UNCHANGED <<evaluations, hotcalls, tcall, searchVars, dbVars, trending_topics,
                 voteVars, modVars, createVars>>

\* the permission check without the community of the membership
MayApprove_anyCommunity(ms, user, community_id, owner_id, readFails) ==
  \/ owner_id = user
  \/ /\ ~readFails
     /\ \E m \in ms : /\ m.user_id = user /\ m.status = "approved"
                      /\ m.role = "admin"

\* isOwner || isAdmin, userMembership being the approved membership of the
\* requester in the community of the membership; a failed read gives no row
MayApprove(ms, user, community_id, owner_id, readFails) ==
  \/ owner_id = user
  \/ /\ ~readFails
     /\ \E m \in ms : /\ m.user_id = user /\ m.community_id = community_id
                      /\ m.status = "approved" /\ m.role = "admin"

\* "Check if user has permission to approve (community owner or admin)"
ApprovePermission(g) ==
  /\ gpc[g] = "approve_permission"
  /\ \E readFails \in BOOLEAN :
       IF MayApprove(memberships, greq[g].user, gloc[g].community_id,
                     gloc[g].owner_id, readFails)
       THEN /\ gpc' = [gpc EXCEPT ![g] = "approve_update"]
            /\ UNCHANGED gresp
       ELSE /\ gpc' = [gpc EXCEPT ![g] = "done"]
            /\ gresp' = [gresp EXCEPT ![g] = CommunityError(
                           "You do not have permission to approve memberships")]
  /\ UNCHANGED <<communities, memberships, greq, gloc, ncom>>
  /\ UNCHANGED <<evaluations, hotcalls, tcall, searchVars, dbVars, trending_topics,
                 voteVars, modVars, createVars>>

\* "Update membership status", one statement with its row trigger, and the response
ApproveUpdate(g) ==
  /\ gpc[g] = "approve_update"
  /\ \E storeFails \in BOOLEAN :
       LET newStatus == IF greq[g].approve THEN "approved" ELSE "rejected"
           stmt == UpdateMembershipStatus(memberships, communities,
                                          greq[g].membership_id, newStatus)
       IN IF storeFails
          THEN /\ gresp' = [gresp EXCEPT ![g] = CommunityError(StoreError)]
               /\ UNCHANGED <<communities, memberships>>
          ELSE /\ memberships' = stmt.memberships
               /\ communities' = stmt.communities
               /\ gresp' = [gresp EXCEPT ![g] = CommunityOk(newStatus)]
  /\ gpc' = [gpc EXCEPT ![g] = "done"]
  /\ UNCHANGED <<greq, gloc, ncom>>
  /\ UNCHANGED <<evaluations, hotcalls, tcall, searchVars, dbVars, trending_topics,
                 voteVars, modVars, createVars>>

\* the response is sent; the handler is free for the next request
CommunityReturn(g) ==
  /\ gpc[g] = "done"
  /\ gpc' = [gpc EXCEPT ![g] = "idle"]
  /\ greq' = [greq EXCEPT ![g] = NoCommunityRequest]
  /\ gloc' = [gloc EXCEPT ![g] = NoCommunityLocals]
  /\ gresp' = [gresp EXCEPT ![g] = NoCommunityResponse]
  /\ UNCHANGED <<communities, memberships, ncom>>
  /\ UNCHANGED <<evaluations, hotcalls, tcall, searchVars, dbVars, trending_topics,
                 voteVars, modVars, createVars>>

\* ------------------------------------------------- deletion of a comment
RECURSIVE CommentSubtree(_, _)
\* the comments that a delete of ids removes: parent_id ... ON DELETE CASCADE
CommentSubtree(cs, ids) ==
  LET more == {c \in DOMAIN cs : cs[c].parent_id \in ids} \ ids
  IN IF more = {} THEN ids ELSE CommentSubtree(cs, ids \cup more)

RECURSIVE RunCommentDeleteTriggers(_, _, _)
\* the row trigger of the comments table for each deleted row
RunCommentDeleteTriggers(ids, cs, ps) ==
  IF ids = {} THEN ps
  ELSE LET id == CHOOSE c \in ids : TRUE
       IN RunCommentDeleteTriggers(ids \ {id}, cs,
             update_post_comment_count("DELETE", cs[id], cs[id], ps))

\* DELETE FROM comments WHERE id = ..., with the cascade to the replies and to
\* the votes on the deleted comments, one statement with its row triggers
DeleteComment(id) ==
  /\ id \in DOMAIN comments
  /\ LET gone == CommentSubtree(comments, {id})
     IN /\ comments' = [c \in DOMAIN comments \ gone |-> comments[c]]
        /\ votes' = {v \in votes : v.comment_id \notin gone}
        /\ posts' = RunCommentDeleteTriggers(gone, comments, posts)
  /\ UNCHANGED <<evaluations, hotcalls, communityVars, tcall, searchVars, moderation_logs, trending_topics,
                 voteVars, modVars, createVars>>

CommunityHandlersIdle ==
  /\ gpc = [g \in CommunityHandlers |-> "idle"]
  /\ greq = [g \in CommunityHandlers |-> NoCommunityRequest]
  /\ gloc = [g \in CommunityHandlers |-> NoCommunityLocals]
  /\ gresp = [g \in CommunityHandlers |-> NoCommunityResponse]
  /\ ncom = 0

ContentHandlersIdle ==
  /\ vpc = [h \in VoteHandlers |-> "idle"]
  /\ vreq = [h \in VoteHandlers |-> NoRequest]
  /\ vresp = [h \in VoteHandlers |-> NoResponse]
  /\ nreq = 0
  /\ lastVote = NoRequest
  /\ streak = 0
  /\ mpc = [m \in ModHandlers |-> "idle"]
  /\ mreq = [m \in ModHandlers |-> NoModRequest]
  /\ mtox = [m \in ModHandlers |-> NoToxicity]
  /\ mdec = [m \in ModHandlers |-> NoDecision]
  /\ mresp = [m \in ModHandlers |-> NoModResponse]
  /\ nmod = 0
  /\ cpc = [k \in CreateHandlers |-> "idle"]
  /\ creq = [k \in CreateHandlers |-> NoCreateRequest]
  /\ cresp = [k \in CreateHandlers |-> NoCreateResponse]
  /\ cwords = [k \in CreateHandlers |-> <<>>]
  /\ ncre = 0
  /\ evaluations = <<>>
  /\ hotcalls = <<>>
  /\ tcall = [w \in TopicWriters |-> NoTopicCall]
  /\ spc = [h \in SearchHandlers |-> "idle"]
  /\ sreq = [h \in SearchHandlers |-> NoSearchRequest]
  /\ sres = [h \in SearchHandlers |-> NoSearchLocals]
  /\ sresp = [h \in SearchHandlers |-> NoSearchResponse]
  /\ nsea = 0

\* every handler idle, on a store without communities
HandlersIdle ==
  /\ ContentHandlersIdle
  /\ communities = <<>>
  /\ memberships = {}
  /\ CommunityHandlersIdle

\* one post and one comment on it, as created, before their moderation
CreatedPosts == [id \in PostIds |-> NewPost("t_clean", "u1")]
CreatedComments == [id \in CommentIds |-> NewComment("t_clean", "u2", "p1")]

ModInit ==
  /\ posts = CreatedPosts
  /\ comments = CreatedComments
  /\ votes = {}
  /\ moderation_logs = <<>>
  /\ trending_topics = <<>>
  /\ HandlersIdle

ModNext ==
  \E m \in ModHandlers : ModStart(m) \/ ModUpdate(m) \/ ModLog(m) \/ ModReturn(m)

ModSpec == ModInit /\ [][ModNext]_vars

\* The moderation function on a store that also holds a post and a comment no
\* request names.
FrameInit ==
  /\ posts = CreatedPosts @@ [p0 |-> NewPost("t_spam", "u2")]
  /\ comments = CreatedComments @@ [c0 |-> NewComment("t_two", "u1", "p1")]
  /\ votes = {}
  /\ moderation_logs = <<>>
  /\ trending_topics = <<>>
  /\ HandlersIdle

FrameSpec == FrameInit /\ [][ModNext]_vars

\* The store the votes function runs on: each item is as created ("none") or as
\* updateContentStatus left it after one decision of the moderation function.
SeedScore(a) == IF a = "reject" THEN 90 ELSE IF a = "flag" THEN 60 ELSE 0
Seeded(db, contentType, contentId, a) ==
  IF a = "none" THEN db
  ELSE updateContentStatus(db.posts, db.comments, contentType, contentId,
                           [action |-> a, reason |-> <<>>], SeedScore(a))

Init ==
  /\ \E a1 \in {"none", "approve", "flag", "reject"},
        a2 \in {"none", "approve", "flag", "reject"} :
       LET db0 == [posts |-> CreatedPosts, comments |-> CreatedComments]
           db1 == Seeded(db0, "post", "p1", a1)
           db2 == Seeded(db1, "comment", "c1", a2)
       IN posts = db2.posts /\ comments = db2.comments
  /\ votes = {}
  /\ moderation_logs = <<>>
  /\ trending_topics = <<>>
  /\ HandlersIdle

Next ==
  \E h \in VoteHandlers :
     VoteStart(h) \/ VoteCheck(h) \/ VoteMutate(h) \/ VoteRecount(h) \/ VoteReturn(h)

Spec == Init /\ [][Next]_vars

\* The 'vote' action of the posts function, on the store of the votes function.
PostVoteNext ==
  \E h \in VoteHandlers : PostVoteStart(h) \/ PostVoteMutate(h) \/ VoteReturn(h)

PostVoteSpec == Init /\ [][PostVoteNext]_vars

\* Both functions at work on one store, from newly created content, with at
\* most MaxMixedRequests requests in all.
MixedNext ==
  \/ \E h \in VoteHandlers : nreq + nmod < MaxMixedRequests /\ VoteStart(h)
  \/ \E h \in VoteHandlers :
        VoteCheck(h) \/ VoteMutate(h) \/ VoteRecount(h) \/ VoteReturn(h)
  \/ \E m \in ModHandlers : nreq + nmod < MaxMixedRequests /\ ModStart(m)
  \/ \E m \in ModHandlers : ModUpdate(m) \/ ModLog(m) \/ ModReturn(m)

MixedSpec == ModInit /\ [][MixedNext]_vars

\* The posts and comments functions creating content on an empty store, with the
\* moderation function they invoke.
CreateInit ==
  /\ posts = <<>>
  /\ comments = <<>>
  /\ votes = {}
  /\ moderation_logs = <<>>
  /\ trending_topics = <<>>
  /\ HandlersIdle

CreateNext ==
  \/ \E k \in CreateHandlers :
        \/ CreateStart(k) \/ CreateFindPost(k) \/ CreateMembership(k)
        \/ CreateParent(k) \/ CreateInsert(k) \/ CreateTrending(k)
        \/ CreateRespond(k) \/ CreateReturn(k)
  \/ \E k \in CreateHandlers : \E m \in ModHandlers :
        CreateInvokeModeration(k, m) \/ CreateAfterModeration(k, m)
  \/ \E m \in ModHandlers : ModUpdate(m) \/ ModLog(m)

CreateSpec == CreateInit /\ [][CreateNext]_vars

\* The creation of posts and comments with the moderation it invokes, and the
\* deletion of comments.
CountNext ==
  \/ CreateNext
  \/ \E id \in CommentIds : DeleteComment(id)

CountSpec == CreateInit /\ [][CountNext]_vars

\* A thread of replies as six creations leave it: on the approved post p1 the
\* comments d0 .. d5, each the reply to the one before, of depths 0 .. 5.
ThreadIds == <<"d0", "d1", "d2", "d3", "d4", "d5">>
ThreadComments ==
  [id \in {ThreadIds[i] : i \in 1..Len(ThreadIds)} |->
     LET i == CHOOSE j \in 1..Len(ThreadIds) : ThreadIds[j] = id
     IN [NewComment("t_clean", "u1", "p1") EXCEPT
           !.parent_id = IF i = 1 THEN Null ELSE ThreadIds[i - 1],
           !.depth = i - 1]]

DepthInit ==
  /\ posts = [id \in {"p1"} |->
                [NewPost("t_clean", "u1") EXCEPT
                   !.is_approved = TRUE, !.moderation_status = "approved",
                   !.approved_at = T0]]
  /\ comments = ThreadComments
  /\ votes = {}
  /\ moderation_logs = <<>>
  /\ trending_topics = <<>>
  /\ HandlersIdle

\* The creation of comments on a post that has a thread (no post is created:
\* the post of the thread is the one post), and the deletion of comments.
DepthNext ==
  \/ \E k \in CreateHandlers :
        \/ CreateStart(k) \/ CreateFindPost(k) \/ CreateMembership(k)
        \/ CreateParent(k) \/ CreateInsert(k)
        \/ CreateRespond(k) \/ CreateReturn(k)
  \/ \E k \in CreateHandlers : \E m \in ModHandlers :
        CreateInvokeModeration(k, m) \/ CreateAfterModeration(k, m)
  \/ \E m \in ModHandlers : ModUpdate(m) \/ ModLog(m)
  \/ \E id \in DOMAIN ThreadComments \cup CommentIds : DeleteComment(id)

DepthSpec == DepthInit /\ [][DepthNext]_vars

\* ------------------------------------------------------------- the scorer
\* Texts for the scorer alone: the texts above and two of more than 2000
\* characters, one that triggers three patterns and one that triggers all five.
Filler == [i \in 1..2000 |-> "z"]
T_long3 == <<"h","a","t","e"," ","h","t","t","p",":","/","/","x"," ">> \o Filler
T_long5 == <<"h","a","t","e"," ","h","t","t","p",":","/","/","x"," ",
             "A","B","C","D","E","F","G","H","I","J"," ",
             "1","2","3","4","5","6","7","8","9","0"," ">> \o Filler

ScorerTexts == Texts @@ [t_long3 |-> T_long3, t_long5 |-> T_long5]
ScorerTextIds == DOMAIN ScorerTexts

\* steps 1-3 of the moderation handler on each text of the scorer, computed once
EvaluationOfText ==
  [t \in ScorerTextIds |->
     LET profanityResult == checkProfanity(ScorerTexts[t])
     IN [random \in JitterMilli |->
           LET toxicityResult == checkToxicity(ScorerTexts[t], random)
           IN [content |-> t,
               toxicity |-> toxicityResult,
               decision |-> decideModerationAction(profanityResult, toxicityResult)]]]

\* one evaluation of a text: Math.random() is drawn anew by each
Evaluate ==
  /\ Len(evaluations) < MaxEvaluations
  /\ \E t \in ScorerTextIds, random \in JitterMilli :
       evaluations' = Append(evaluations, EvaluationOfText[t][random])
  /\ UNCHANGED <<hotcalls, communityVars, tcall, searchVars, dbVars, trending_topics, voteVars, modVars,
                 createVars>>

ScorerInit == ModInit

ScorerNext == Evaluate

ScorerSpec == ScorerInit /\ [][ScorerNext]_vars

\* -------------------------------------------------- the hot score function
\* EXTRACT(EPOCH FROM ts) / 3600 of the timestamps of the store, in twentieths
Instant == [t0 |-> 20, t1 |-> 40]

HotVoteScores == -2..2
HotCommentCounts == 0..1
HotCreated == Instant[T0]
HotInstants == {18, 20, 21, 22, 40, 60}

\* one call of calculate_hot_score, at the instant now
HotCall ==
  /\ Len(hotcalls) < MaxHotCalls
  /\ \E vote_score \in HotVoteScores, comment_count \in HotCommentCounts,
        now \in HotInstants :
       hotcalls' = Append(hotcalls,
          [vote_score |-> vote_score, comment_count |-> comment_count,
           created_at |-> HotCreated, now |-> now,
           hot_score |-> calculate_hot_score(vote_score, comment_count,
                                             HotCreated, now)])
  /\ UNCHANGED <<evaluations, tcall, searchVars, communityVars, dbVars,
                 trending_topics, voteVars, modVars, createVars>>

HotInit == ModInit

HotNext == HotCall

HotSpec == HotInit /\ [][HotNext]_vars

\* ------------------------------------------------- the hot score refresh
\* every post, visible or not
refresh_hot_scores_allPosts(ps, now) ==
  [id \in DOMAIN ps |->
     [ps[id] EXCEPT !.hot_score =
        calculate_hot_score(ps[id].vote_score, ps[id].comment_count,
                            Instant[ps[id].created_at], now)]]

\* UPDATE posts SET hot_score = calculate_hot_score(vote_score, comment_count,
\* created_at) WHERE is_approved = true AND NOT is_removed, run at now()
refresh_hot_scores(ps, now) ==
  [id \in DOMAIN ps |->
     IF ps[id].is_approved /\ ~ps[id].is_removed
     THEN [ps[id] EXCEPT !.hot_score =
             calculate_hot_score(ps[id].vote_score, ps[id].comment_count,
                                 Instant[ps[id].created_at], now)]
     ELSE ps[id]]

\* a hot score left by a refresh when the post had other counts
HotStale == [base2 |-> 7, den20 |-> 60]

\* posts as the votes, the comments and the moderation may have left them
RefreshRows ==
  { SetColumns(NewPost("t_clean", "u1"),
               [is_approved |-> a, is_removed |-> r, vote_score |-> v,
                comment_count |-> c, hot_score |-> h]) :
      a \in BOOLEAN, r \in BOOLEAN, v \in {-1, 2}, c \in {0, 1},
      h \in {HotDefault, HotStale} }

RefreshPostIds == {"p1", "p2"}

\* the periodic job calls refresh_hot_scores()
RefreshHotScores ==
  /\ \E now \in HotInstants : posts' = refresh_hot_scores(posts, now)
  /\ UNCHANGED <<comments, votes, moderation_logs, trending_topics, voteVars,
                 modVars, createVars, evaluations, hotcalls, communityVars, tcall, searchVars>>

RefreshInit ==
  /\ posts \in [RefreshPostIds -> RefreshRows]
  /\ comments = <<>>
  /\ votes = {}
  /\ moderation_logs = <<>>
  /\ trending_topics = <<>>
  /\ HandlersIdle

RefreshNext == RefreshHotScores

RefreshSpec == RefreshInit /\ [][RefreshNext]_vars

\* ------------------------------------------- concurrent updateTrendingTopics
TopicInit ==
  /\ posts = <<>>
  /\ comments = <<>>
  /\ votes = {}
  /\ moderation_logs = <<>>
  /\ trending_topics = StoredTopics
  /\ HandlersIdle

TopicNext == \E w \in TopicWriters : TopicStart(w) \/ TopicUpsert(w)

TopicSpec == TopicInit /\ [][TopicNext]_vars

\* --------------------------------------------------- the search function
SearchInit ==
  /\ posts = SearchablePosts
  /\ comments = <<>>
  /\ votes = {}
  /\ moderation_logs = <<>>
  /\ trending_topics = <<>>
  /\ HandlersIdle

SearchNext ==
  \E s \in SearchHandlers :
     \/ SearchStart(s) \/ SearchTitle(s) \/ SearchContent(s) \/ SearchCommunities(s)
     \/ SearchTrending(s) \/ SearchRespond(s) \/ SearchReturn(s)

SearchSpec == SearchInit /\ [][SearchNext]_vars

\* The communities function, on a store with one community as the function left
\* it: n1 of u1, public or private, u2 having never joined or holding the
\* membership that a join and a decision of the owner left.
SeededCommunity(privacy_type, status) ==
  LET c1 == InsertCommunity(<<>>, "n1", N_cse, privacy_type, "u1")
      m1 == InsertMembership({}, c1.communities, "u1", "n1", "admin", "approved")
      joined == IF privacy_type = "public" THEN "approved" ELSE "pending"
      m2 == IF status = "none" THEN m1
            ELSE InsertMembership(m1.memberships, m1.communities, "u2", "n1",
                                  "member", joined)
  IN IF status \in {"none", joined} THEN m2
     ELSE UpdateMembershipStatus(m2.memberships, m2.communities, 2, status)

CommunityInit ==
  /\ posts = <<>>
  /\ comments = <<>>
  /\ votes = {}
  /\ moderation_logs = <<>>
  /\ trending_topics = <<>>
  /\ ContentHandlersIdle
  /\ CommunityHandlersIdle
  /\ \E privacy_type \in {"public", "private"},
        status \in {"none", "pending", "approved", "rejected"} :
       /\ privacy_type = "public" => status # "pending"
       /\ communities = SeededCommunity(privacy_type, status).communities
       /\ memberships = SeededCommunity(privacy_type, status).memberships

CommunityNext ==
  \E g \in CommunityHandlers :
     \/ CommunityStart(g)
     \/ CreateCommunityCheck(g) \/ CreateCommunityInsert(g) \/ CreateCommunityMember(g)
     \/ JoinFindCommunity(g) \/ JoinFindMembership(g) \/ JoinUpsert(g)
     \/ ApproveFind(g) \/ ApprovePermission(g) \/ ApproveUpdate(g)
     \/ CommunityReturn(g)

CommunitySpec == CommunityInit /\ [][CommunityNext]_vars

\* ------------------------------------------------------------- properties
RECURSIVE NetVotes(_)
\* #up - #down over a set of Vote rows
NetVotes(rows) ==
  IF rows = {} THEN 0
  ELSE LET v == CHOOSE x \in rows : TRUE
       IN (IF v.vote_type = "up" THEN 1 ELSE IF v.vote_type = "down" THEN -1 ELSE 0)
          + NetVotes(rows \ {v})

VotesOnPost(vs, id) == {v \in vs : v.post_id = id}
VotesOnComment(vs, id) == {v \in vs : v.comment_id = id}
VotesOnTarget(vs, r) ==
  IF r.post_id # Null THEN VotesOnPost(vs, r.post_id) ELSE VotesOnComment(vs, r.comment_id)
VotesOfVoter(vs, r) == {v \in VotesOnTarget(vs, r) : v.user_id = r.user}

\* C1: in every reachable state the stored vote_score of every post and comment
\* equals the number of its 'up' Vote rows minus the number of its 'down' rows.
C1_ScoreIsUpMinusDown ==
  /\ \A id \in DOMAIN posts : posts[id].vote_score = NetVotes(VotesOnPost(votes, id))
  /\ \A id \in DOMAIN comments :
        comments[id].vote_score = NetVotes(VotesOnComment(votes, id))

\* a down vote on the post and an up vote on the comment are stored
C1_Witness ==
  /\ \E v \in votes : v.post_id = "p1" /\ v.vote_type = "down"
  /\ \E v \in votes : v.comment_id = "c1" /\ v.vote_type = "up"
  /\ posts["p1"].vote_score = -1
  /\ comments["c1"].vote_score = 1

NoVoteInFlight == \A h \in VoteHandlers : vpc[h] \in {"idle", "done"}

ScoresRecounted(ps, cs, vs) ==
  /\ \A id \in DOMAIN ps : ps[id].vote_score = NetVotes({v \in vs : v.post_id = id})
  /\ \A id \in DOMAIN cs : cs[id].vote_score = NetVotes({v \in vs : v.comment_id = id})

\* C2: under any interleaving of the vote requests, once all of them have
\* completed the stored scores equal #up - #down over the final Vote rows, and
\* the mutation and the recount-and-write are one atomic unit: every step that
\* changes the Vote rows leaves the scores recounted over the rows it leaves.
C2_MutationAndRecountAtomic ==
  /\ [](NoVoteInFlight => ScoresRecounted(posts, comments, votes))
  /\ [][votes' # votes => ScoresRecounted(posts', comments', votes')]_vars

\* two requests of distinct voters on the post overlap, both past their mutation
C2_Witness ==
  /\ vpc["h1"] = "recount" /\ vpc["h2"] = "recount"
  /\ vreq["h1"].user # vreq["h2"].user
  /\ vreq["h1"].post_id = "p1" /\ vreq["h2"].post_id = "p1"
  /\ Cardinality(VotesOnPost(votes, "p1")) = 2

\* the effect of the mutation of request r from the rows vs to the rows ws
VoteEffect(r, vs, ws) ==
  /\ ws \ VotesOfVoter(ws, r) = vs \ VotesOfVoter(vs, r)
  /\ IF r.vote_type = Null
     THEN VotesOfVoter(ws, r) = {}
     ELSE /\ Cardinality(VotesOfVoter(ws, r)) = 1
          /\ \A v \in VotesOfVoter(ws, r) : v.vote_type = r.vote_type
          /\ VotesOfVoter(vs, r) # {} =>
                {v.id : v \in VotesOfVoter(ws, r)} = {v.id : v \in VotesOfVoter(vs, r)}

\* C3: there is at most one Vote row per (voter, target); an up/down vote of a
\* voter who has a row on the target changes that row's polarity and adds no
\* row; a null vote removes that voter's row for the target and no other row.
C3_OneVotePerVoterAndTarget ==
  /\ [](\A v1 \in votes : \A v2 \in votes :
          (v1.user_id = v2.user_id /\ v1.post_id = v2.post_id
             /\ v1.comment_id = v2.comment_id) => v1 = v2)
  /\ [][\A h \in VoteHandlers :
          (vpc[h] = "mutate" /\ vpc'[h] = "recount") => VoteEffect(vreq[h], votes, votes')]_vars

\* a voter whose up vote was answered has voted down, and holds one row, a down
C3_Witness ==
  \E h \in VoteHandlers : \E g \in VoteHandlers :
     /\ vpc[h] = "recount" /\ vpc[g] = "done" /\ vresp[g].success
     /\ vreq[h].user = vreq[g].user
     /\ vreq[h].post_id = "p1" /\ vreq[g].post_id = "p1"
     /\ vreq[g].vote_type = "up" /\ vreq[h].vote_type = "down"
     /\ \E v \in votes : VotesOfVoter(votes, vreq[h]) = {v} /\ v.vote_type = "down"

\* C4: a request equal to the one whose mutation was applied last (same voter,
\* target and polarity or removal) leaves the Vote rows and every vote_score
\* as they are, is not refused by the function (only a failing store call ends
\* it with an error), and a request that reaches the recount is answered with
\* success.
C4_RepeatedVoteIdempotent ==
  /\ [][\A h \in VoteHandlers :
          (vpc[h] = "mutate" /\ vpc'[h] # "mutate" /\ vreq[h] = lastVote) =>
             /\ votes' = votes /\ posts' = posts /\ comments' = comments
             /\ \/ vpc'[h] = "recount"
                \/ vresp'[h].error = StoreError]_vars
  /\ [][\A h \in VoteHandlers :
          (vpc[h] = "recount" /\ vpc'[h] # "recount") => vresp'[h].success]_vars

\* the same up vote was applied twice in succession and both were answered
C4_Witness ==
  /\ streak = 2
  /\ lastVote.vote_type = "up"
  /\ \A h \in VoteHandlers :
        vpc[h] = "done" /\ vresp[h].success /\ vreq[h] = lastVote
  /\ Cardinality(votes) = 1

BadTarget(r) ==
  (r.post_id = Null /\ r.comment_id = Null) \/ (r.post_id # Null /\ r.comment_id # Null)

\* C5: a request that names both post_id and comment_id, or neither, is
\* answered with an error, and the Vote rows and every vote_score are unchanged.
C5_BothOrNeitherRejected ==
  [][\A h \in VoteHandlers :
       (vpc[h] = "idle" /\ vpc'[h] # "idle" /\ BadTarget(vreq'[h])) =>
          /\ vpc'[h] = "done"
          /\ ~vresp'[h].success
          /\ vresp'[h].error # Null
          /\ votes' = votes /\ posts' = posts /\ comments' = comments]_vars

\* a request naming both was answered with the validation error
C5_Witness ==
  \E h \in VoteHandlers :
     /\ vpc[h] = "done"
     /\ vreq[h].post_id # Null /\ vreq[h].comment_id # Null
     /\ vresp[h].error = MustSpecify
     /\ ~vresp[h].success

\* the target of request r exists and is visible: approved and not removed
TargetVisible(r) ==
  IF r.post_id # Null
  THEN /\ r.post_id \in DOMAIN posts
       /\ posts[r.post_id].is_approved /\ ~posts[r.post_id].is_removed
  ELSE /\ r.comment_id \in DOMAIN comments
       /\ comments[r.comment_id].is_approved /\ ~comments[r.comment_id].is_removed

\* C6: a request whose target does not exist or is not visible (pending,
\* flagged, rejected or removed) is aborted before any mutation: no handler gets
\* past the check, to its mutation, for such a target.
C6_InvisibleTargetAborted ==
  \A h \in VoteHandlers : vpc[h] \in {"mutate", "recount"} => TargetVisible(vreq[h])

\* a vote on a post that was never approved is stored and counted
C6_Witness ==
  /\ ~posts["p1"].is_approved
  /\ posts["p1"].moderation_status \in {"pending", "flagged"}
  /\ \E v \in votes : v.post_id = "p1"
  /\ posts["p1"].vote_score # 0

\* C7: a successful response carries a vote_score equal to the full recount
\* over the Vote rows of the target, taken after the caller's mutation.
C7_ResponseCarriesRecount ==
  [][\A h \in VoteHandlers :
       (vpc[h] = "recount" /\ vpc'[h] = "done" /\ vresp'[h].success) =>
          vresp'[h].vote_score = <<NetVotes(VotesOnTarget(votes, vreq[h]))>>]_vars

\* a request whose vote is stored is answered with success and no score
C7_Witness ==
  \E h \in VoteHandlers :
     /\ vpc[h] = "done" /\ vresp[h].success
     /\ vresp[h].vote_score = <<>>
     /\ vreq[h].vote_type = "up"
     /\ VotesOfVoter(votes, vreq[h]) # {}

\* one character, case folded
Fold(c) == IF c \in DOMAIN LowerOf THEN LowerOf[c] ELSE c

\* the term w occurs in the text s, letter case aside
HasTerm(s, w) ==
  \E off \in 0..(Len(s) - Len(w)) : \A k \in 1..Len(w) : Fold(s[off + k]) = w[k]

\* the terms of the denylist that occur in s, in the order of the denylist
MatchedTerms(s) == SelectSeq(profanityWords, LAMBDA w : HasTerm(s, w))

\* the matched terms of each text of the model, computed once
MatchedOfText == [t \in TextIds |-> MatchedTerms(Texts[t])]

ModTextOf(m) == Texts[mreq[m].content]
ModMatched(m) == MatchedOfText[mreq[m].content]

\* C8: the decision is a function of (toxicity value, profanity matched) in
\* fixed priority: reject when value > 0.8 or profanity matched, otherwise flag
\* when value > 0.5, otherwise approve; both comparisons are strict: without
\* profanity 0.80 is flagged, 0.81 rejected, 0.50 approved, 0.51 flagged and
\* 0.0 approved.
C8_DecisionPriorityStrict ==
  \A m \in ModHandlers :
     mpc[m] # "idle" =>
        LET value == mtox[m].score
            matched == ModMatched(m) # <<>>
            action == mdec[m].action
        IN /\ action = IF value > 80 \/ matched THEN "reject"
                       ELSE IF value > 50 THEN "flag" ELSE "approve"
           /\ (~matched /\ value = 80) => action = "flag"
           /\ (~matched /\ value = 81) => action = "reject"
           /\ (~matched /\ value = 50) => action = "approve"
           /\ (~matched /\ value = 51) => action = "flag"
           /\ (~matched /\ value = 0) => action = "approve"

\* a text without profanity scored exactly 0.80 was flagged
C8_Witness ==
  \E m \in ModHandlers :
     /\ mpc[m] = "update"
     /\ mtox[m].score = 80
     /\ ModMatched(m) = <<>>
     /\ mdec[m].action = "flag"

\* C9: profanity takes priority over toxicity: a text that contains a denylisted
\* term as a case-insensitive substring is rejected whatever its toxicity value,
\* and the reason lists the matched terms, not the toxicity reason; the empty
\* text matches nothing.
C9_ProfanityTakesPriority ==
  \A m \in ModHandlers :
     mpc[m] # "idle" =>
        LET matched == ModMatched(m)
        IN /\ matched # <<>> =>
                /\ mdec[m].action = "reject"
                /\ mdec[m].reason = prohibitedPrefix \o join(matched, commaSpace)
                /\ mdec[m].reason # <<"High toxicity score detected">>
           /\ ModTextOf(m) = <<>> =>
                /\ matched = <<>>
                /\ mdec[m].action # "reject"
                /\ Len(mdec[m].reason) = 1

\* "Free SPAM here!" scored 0.0 was rejected for the term spam
C9_Witness ==
  \E m \in ModHandlers :
     /\ mpc[m] = "update"
     /\ mreq[m].content = "t_spam"
     /\ mtox[m].score = 0
     /\ mdec[m].action = "reject"
     /\ mdec[m].reason = prohibitedPrefix \o <<"s","p","a","m">>

ModTargetExists(r) ==
  IF r.content_type = "post" THEN r.content_id \in DOMAIN posts
  ELSE r.content_type = "comment" /\ r.content_id \in DOMAIN comments

ModTargetRow(ps, cs, r) ==
  IF r.content_type = "post" THEN ps[r.content_id] ELSE cs[r.content_id]

IsPendingItem(row) ==
  row.moderation_status = "pending" /\ ~row.is_approved /\ ~row.is_removed

\* C10: the update of a successful moderation of a pending item stores: for
\* approve moderation_status 'approved', is_approved true and approved_at set;
\* for flag moderation_status 'flagged' and is_approved false; for reject
\* moderation_status 'rejected', is_removed true and is_approved false; and the
\* stored toxicity_score is the score returned to the caller.
C10_PersistenceMapping ==
  /\ [][\A m \in ModHandlers :
          (/\ mpc[m] = "update" /\ mpc'[m] = "log"
           /\ ModTargetExists(mreq[m])
           /\ IsPendingItem(ModTargetRow(posts, comments, mreq[m]))) =>
             LET row == ModTargetRow(posts', comments', mreq[m])
                 action == mdec[m].action
             IN /\ action \in {"approve", "flag", "reject"}
                /\ action = "approve" =>
                      /\ row.moderation_status = "approved"
                      /\ row.is_approved /\ ~row.is_removed
                      /\ row.approved_at # Null
                /\ action = "flag" =>
                      /\ row.moderation_status = "flagged"
                      /\ ~row.is_approved /\ ~row.is_removed
                /\ action = "reject" =>
                      /\ row.moderation_status = "rejected"
                      /\ row.is_removed /\ ~row.is_approved
                /\ row.toxicity_score = mtox[m].score]_vars
  /\ [](\A m \in ModHandlers :
          (mpc[m] = "done" /\ mresp[m].ok /\ ModTargetExists(mreq[m])) =>
             /\ mresp[m].toxicity_score =
                   <<ModTargetRow(posts, comments, mreq[m]).toxicity_score>>
             /\ mresp[m].decision = mdec[m].action)

\* the first moderation, of the pending post, rejected it and was answered
C10_Witness ==
  \E m \in ModHandlers :
     /\ nmod = 1
     /\ mpc[m] = "done" /\ mresp[m].ok
     /\ mreq[m].content_type = "post" /\ mreq[m].content_id = "p1"
     /\ mresp[m].decision = "reject"
     /\ posts["p1"].moderation_status = "rejected"
     /\ posts["p1"].is_removed /\ ~posts["p1"].is_approved
     /\ mresp[m].toxicity_score = <<posts["p1"].toxicity_score>>

\* C11: a failure of the audit-log write never fails or rolls back a moderation
\* decision: once the status update succeeded, the step of the audit insert,
\* whether it inserts, returns an error or throws, ends in a success response
\* that carries the decision, and leaves the persisted status in place.
C11_AuditFailureSwallowed ==
  [][\A m \in ModHandlers :
       (mpc[m] = "log" /\ mpc'[m] = "done") =>
          /\ mresp'[m].ok
          /\ mresp'[m].decision = mdec[m].action
          /\ posts' = posts /\ comments' = comments]_vars

\* the first moderation approved the post, its status is stored, and the request
\* was answered with the error of the handler's catch
C11_Witness ==
  \E m \in ModHandlers :
     /\ nmod = 1
     /\ mpc[m] = "done" /\ mresp[m] = ModError
     /\ mreq[m].content_type = "post" /\ mreq[m].content_id = "p1"
     /\ mdec[m].action = "approve"
     /\ posts["p1"].moderation_status = "approved" /\ posts["p1"].is_approved
     /\ moderation_logs = <<>>

StatusOf(action) ==
  CASE action = "approve" -> "approved"
    [] action = "flag" -> "flagged"
    [] action = "reject" -> "rejected"
    [] OTHER -> Null

CreatedRow(r) == IF r.kind = "post" THEN posts[r.id] ELSE comments[r.id]

\* C13: every submission is moderated exactly once at creation: when
\* create-post or create-comment answers with success, one moderation decision
\* was applied to the new item, whose moderation_status is no longer 'pending';
\* and the status of an item only ever changes from 'pending' to 'approved',
\* 'flagged' or 'rejected'.
C13_ModeratedOnceAtCreation ==
  /\ [](\A k \in CreateHandlers :
          (cpc[k] = "done" /\ cresp[k].success) =>
             CreatedRow(creq[k]).moderation_status \in {"approved", "flagged", "rejected"})
  /\ [][/\ \A id \in DOMAIN posts :
             posts'[id].moderation_status # posts[id].moderation_status =>
                posts[id].moderation_status = "pending"
        /\ \A id \in DOMAIN comments :
             comments'[id].moderation_status # comments[id].moderation_status =>
                comments[id].moderation_status = "pending"]_vars

\* create-post was answered with success for a post that is still pending, with
\* no decision applied or logged
C13_Witness ==
  \E k \in CreateHandlers :
     /\ cpc[k] = "done" /\ cresp[k].success
     /\ creq[k].kind = "post" /\ cresp[k].id = "p1"
     /\ posts["p1"].moderation_status = "pending"
     /\ ~posts["p1"].is_approved
     /\ moderation_logs = <<>>

\* C14: every moderation decision whose status was persisted is followed by the
\* append of one audit entry for the same target and action with automated =
\* true, when the insert reaches the audit table; no entry is appended for a
\* decision whose status update failed; and the audit log only grows by
\* appending: no entry is changed or removed.
C14_AuditEntryPerDecision ==
  /\ [][\A m \in ModHandlers :
          ModLogOutcome(m, "reached") =>
             \E e \in {moderation_logs'[i] : i \in 1..Len(moderation_logs')} :
                /\ moderation_logs' = Append(moderation_logs, e)
                /\ e.target_type = mreq[m].content_type
                /\ e.target_id = mreq[m].content_id
                /\ e.action = mdec[m].action
                /\ e.automated]_vars
  /\ [][\A m \in ModHandlers :
          (mpc[m] = "update" /\ mpc'[m] = "done") =>
             moderation_logs' = moderation_logs]_vars
  /\ [][/\ Len(moderation_logs') >= Len(moderation_logs)
        /\ SubSeq(moderation_logs', 1, Len(moderation_logs)) = moderation_logs]_vars

\* a moderation flagged the pending comment and was answered with success, and
\* the audit log holds no entry
C14_Witness ==
  \E m \in ModHandlers :
     /\ nmod = 1
     /\ mpc[m] = "done" /\ mresp[m].ok /\ mresp[m].decision = "flag"
     /\ mreq[m].content_type = "comment" /\ mreq[m].content_id = "c1"
     /\ comments["c1"].moderation_status = "flagged"
     /\ moderation_logs = <<>>

\* the suspicious patterns each text of the scorer triggers and its length class
TriggeredOfText ==
  [t \in ScorerTextIds |->
     LET tested == suspiciousPatterns(ScorerTexts[t])
     IN [patterns |-> {i \in 1..5 : tested[i]},
         lengthClass |-> IF Len(ScorerTexts[t]) < 10 THEN "short"
                         ELSE IF Len(ScorerTexts[t]) > 2000 THEN "long"
                         ELSE "medium"]]

\* C15: toxicity scoring is deterministic: two evaluations of the same text
\* return the same toxicity value, the same toxic flag and the same moderation
\* decision.
C15_ScoringDeterministic ==
  \A i, j \in 1..Len(evaluations) :
     evaluations[i].content = evaluations[j].content
       => /\ evaluations[i].toxicity.score = evaluations[j].toxicity.score
          /\ evaluations[i].toxicity.is_toxic = evaluations[j].toxicity.is_toxic
          /\ evaluations[i].decision = evaluations[j].decision

\* the same text evaluated twice, flagged once and rejected once
C15_Witness ==
  /\ Len(evaluations) = 2
  /\ evaluations[1].content = "t_four"
  /\ evaluations[2].content = "t_four"
  /\ evaluations[1].toxicity.score = 80
  /\ evaluations[1].decision.action = "flag"
  /\ evaluations[2].toxicity.score = 81
  /\ evaluations[2].decision.action = "reject"

\* C16: for every input text the toxicity value returned is within [0, 1]
\* (0..100 hundredths), also when all five suspicious patterns and a length
\* increment trigger at once.
C16_ValueBounded ==
  \A i \in 1..Len(evaluations) :
     /\ evaluations[i].toxicity.score >= 0
     /\ evaluations[i].toxicity.score <= 100

\* five patterns and the long-text increment: a raw sum of 1.1 or more, returned as 1
C16_Witness ==
  \E i \in 1..Len(evaluations) :
     /\ evaluations[i].content = "t_long5"
     /\ TriggeredOfText["t_long5"].patterns = 1..5
     /\ TriggeredOfText["t_long5"].lengthClass = "long"
     /\ evaluations[i].toxicity.score = 100

\* C17: the toxic flag agrees with the returned value: toxic is true exactly
\* when the returned value is above 0.7.
C17_FlagAgreesWithValue ==
  \A i \in 1..Len(evaluations) :
     evaluations[i].toxicity.is_toxic <=> evaluations[i].toxicity.score > 70

\* a result with the value 0.70 and the flag set
C17_Witness ==
  \E i \in 1..Len(evaluations) :
     /\ evaluations[i].content = "t_long3"
     /\ evaluations[i].toxicity.score = 70
     /\ evaluations[i].toxicity.is_toxic

\* C18: the toxicity value is monotonic in the triggered patterns: for two texts
\* of the same length class, when the patterns the first triggers are a subset
\* of those the second triggers, the value of the first is never greater than
\* the value of the second.
C18_MonotonicInPatterns ==
  \A i, j \in 1..Len(evaluations) :
     LET a == TriggeredOfText[evaluations[i].content]
         b == TriggeredOfText[evaluations[j].content]
     IN (a.lengthClass = b.lengthClass /\ a.patterns \subseteq b.patterns)
          => evaluations[i].toxicity.score <= evaluations[j].toxicity.score

\* two texts of the medium class that both trigger nothing, the first valued higher
C18_Witness ==
  /\ Len(evaluations) = 2
  /\ evaluations[1].content = "t_clean"
  /\ evaluations[2].content = "t_spam"
  /\ TriggeredOfText["t_clean"] = TriggeredOfText["t_spam"]
  /\ evaluations[1].toxicity.score > evaluations[2].toxicity.score

\* C19: for fixed vote_score and comment_count (any values, zero and negative
\* ones included) the hot score strictly decreases as the age grows: of two
\* calls with the same counts, the one at the greater age returns the smaller
\* score.
C19_HotScoreDecreasesWithAge ==
  \A i, j \in 1..Len(hotcalls) :
     LET a == hotcalls[i]
         b == hotcalls[j]
     IN ( /\ a.vote_score = b.vote_score
          /\ a.comment_count = b.comment_count
          /\ a.now - a.created_at < b.now - b.created_at )
          => HotLess(b.hot_score, a.hot_score)

\* a net score of -2 at the ages 1 h and 2 h: the older score is the greater
C19_Witness ==
  /\ Len(hotcalls) = 2
  /\ hotcalls[1].vote_score = -2 /\ hotcalls[2].vote_score = -2
  /\ hotcalls[1].comment_count = 0 /\ hotcalls[2].comment_count = 0
  /\ hotcalls[1].now - hotcalls[1].created_at = 20
  /\ hotcalls[2].now - hotcalls[2].created_at = 40
  /\ HotLess(hotcalls[1].hot_score, hotcalls[2].hot_score)

\* C20: after a vote mutation changed the vote_score of a post, the hot_score of
\* the post is recomputed from it as part of handling the vote: once a vote
\* request on a post has completed and no other is in flight, the stored
\* hot_score is the hot score of the stored vote_score and comment_count at
\* some instant.
C20_HotScoreFollowsVoteScore ==
  \A h \in VoteHandlers :
     ( /\ NoVoteInFlight
       /\ vpc[h] = "done"
       /\ vresp[h].success
       /\ vreq[h].post_id # Null )
       => LET row == posts[vreq[h].post_id]
          IN \E now \in HotInstants :
                HotEqual(row.hot_score,
                         calculate_hot_score(row.vote_score, row.comment_count,
                                             Instant[row.created_at], now))

\* an up vote on p1 has completed: vote_score is 1, hot_score is still the default
C20_Witness ==
  \E h \in VoteHandlers :
     /\ NoVoteInFlight
     /\ vpc[h] = "done"
     /\ vresp[h].success
     /\ vreq[h].post_id = "p1"
     /\ vreq[h].vote_type = "up"
     /\ posts["p1"].vote_score = 1
     /\ posts["p1"].hot_score = HotDefault

\* C21: the hot score is recomputable from scratch: a bulk refresh leaves every
\* approved, non-removed post with the hot score of its current vote_score,
\* comment_count and age, whatever hot_score it held before; it changes no
\* other column and no post that is unapproved or removed.
C21_RefreshRecomputesVisible ==
  [][\E now \in HotInstants : \A id \in DOMAIN posts :
        /\ DOMAIN posts' = DOMAIN posts
        /\ \A col \in DOMAIN posts[id] \ {"hot_score"} :
              posts'[id][col] = posts[id][col]
        /\ IF posts[id].is_approved /\ ~posts[id].is_removed
           THEN HotEqual(posts'[id].hot_score,
                         calculate_hot_score(posts[id].vote_score,
                                             posts[id].comment_count,
                                             Instant[posts[id].created_at], now))
           ELSE posts'[id].hot_score = posts[id].hot_score]_vars

\* p1 is visible and was refreshed at the age of 2 h from a stale score or the
\* default; p2 is unapproved and keeps its stale score
C21_Witness ==
  /\ posts["p1"].is_approved /\ ~posts["p1"].is_removed
  /\ posts["p1"].vote_score = 2 /\ posts["p1"].comment_count = 1
  /\ posts["p1"].hot_score = [base2 |-> 5, den20 |-> 80]
  /\ ~posts["p2"].is_approved
  /\ posts["p2"].hot_score = HotStale

\* the columns the claim lets the moderation write
StatusColumns ==
  {"toxicity_score", "moderation_status", "is_approved", "is_removed",
   "approved_at", "updated_at"}

\* some handler is about to update the item id of the table of kind
ModUpdating(kind, id) ==
  \E m \in ModHandlers :
     /\ mpc[m] = "update"
     /\ mreq[m].content_id = id
     /\ (mreq[m].content_type = "post") = (kind = "post")

\* C30 as stated: the moderation writes only score and status columns of the
\* item it was called for; the other columns of that item and every other post
\* and comment are left unchanged.
C30_OnlyStatusFieldsWritten ==
  [][ /\ DOMAIN posts' = DOMAIN posts
      /\ DOMAIN comments' = DOMAIN comments
      /\ \A id \in DOMAIN posts :
            /\ \A col \in DOMAIN posts[id] \ StatusColumns :
                  posts'[id][col] = posts[id][col]
            /\ posts'[id] # posts[id] => ModUpdating("post", id)
      /\ \A id \in DOMAIN comments :
            /\ \A col \in DOMAIN comments[id] \ StatusColumns :
                  comments'[id][col] = comments[id][col]
            /\ comments'[id] # comments[id] => ModUpdating("comment", id) ]_vars

\* C30 amended: as above, except that the update which approves a comment adds
\* one to the comment_count of the post of the comment.
C30_OnlyStatusFieldsAndCount ==
  [][ /\ DOMAIN posts' = DOMAIN posts
      /\ DOMAIN comments' = DOMAIN comments
      /\ \A id \in DOMAIN posts :
            /\ \A col \in DOMAIN posts[id] \ (StatusColumns \cup {"comment_count"}) :
                  posts'[id][col] = posts[id][col]
            /\ (\E col \in StatusColumns : posts'[id][col] # posts[id][col])
                  => ModUpdating("post", id)
            /\ posts'[id].comment_count # posts[id].comment_count
                  => /\ posts'[id].comment_count = posts[id].comment_count + 1
                     /\ \E c \in DOMAIN comments :
                           /\ ModUpdating("comment", c)
                           /\ comments[c].post_id = id
                           /\ ~comments[c].is_approved
                           /\ comments'[c].is_approved
      /\ \A id \in DOMAIN comments :
            /\ \A col \in DOMAIN comments[id] \ StatusColumns :
                  comments'[id][col] = comments[id][col]
            /\ comments'[id] # comments[id] => ModUpdating("comment", id) ]_vars

\* the comment c1 was approved: its post p1 counts one comment; the post p0 and
\* the comment c0 are as they were
C30_Witness ==
  /\ comments["c1"].is_approved
  /\ comments["c1"].moderation_status = "approved"
  /\ comments["c1"].content = "t_clean"
  /\ posts["p1"].comment_count = 1
  /\ posts["p1"].moderation_status = "rejected"
  /\ posts["p1"].content = "t_clean"
  /\ posts["p0"] = NewPost("t_spam", "u2")
  /\ comments["c0"] = NewComment("t_two", "u1", "p1")

\* the word whose upsert the store accepted in this step, for writer w
TopicUpserted(w) == tcall'[w].upserted[Len(tcall'[w].upserted)]

\* C22: each sighting of a topic increments its frequency: the upsert of a topic
\* that does not exist creates it with frequency 1, the upsert of a topic that
\* exists with frequency f leaves it with frequency f + 1, and last_updated is
\* refreshed.
C22_UpsertIncrementsFrequency ==
  [][\A w \in TopicWriters :
        Len(tcall'[w].upserted) = Len(tcall[w].upserted) + 1
          => LET topic == TopicUpserted(w)
             IN /\ topic \in DOMAIN trending_topics'
                /\ trending_topics'[topic].last_updated = Now
                /\ trending_topics'[topic].frequency =
                      IF topic \in DOMAIN trending_topics
                      THEN trending_topics[topic].frequency + 1
                      ELSE 1]_vars

\* the topic brown, stored with frequency 4, was upserted once and has frequency 1
C22_Witness ==
  /\ \E w \in TopicWriters : tcall[w].upserted = <<<<"q","u","i","c","k">>,
                                                  <<"b","r","o","w","n">>>>
  /\ \A w \in TopicWriters : Len(tcall[w].upserted) <= 2
  /\ trending_topics[<<"b","r","o","w","n">>] = [frequency |-> 1, last_updated |-> Now]

RECURSIVE UpsertsOf(_, _)
\* the number of accepted upserts of topic by the writers ws
UpsertsOf(ws, topic) ==
  IF ws = {} THEN 0
  ELSE LET w == CHOOSE x \in ws : TRUE
       IN Cardinality({i \in 1..Len(tcall[w].upserted) : tcall[w].upserted[i] = topic})
          + UpsertsOf(ws \ {w}, topic)

\* C23: concurrent upserts of one topic lose no update: when the callers have
\* ended, in whatever order their upserts ran, a topic upserted k times has one
\* row and its frequency has grown by k.
C23_NoLostTopicUpdate ==
  (\A w \in TopicWriters : TopicEnded(w))
    => \A w \in TopicWriters : \A i \in 1..Len(tcall[w].upserted) :
          LET topic == tcall[w].upserted[i]
              before == IF topic \in DOMAIN StoredTopics
                        THEN StoredTopics[topic].frequency ELSE 0
          IN /\ topic \in DOMAIN trending_topics
             /\ trending_topics[topic].frequency
                   = before + UpsertsOf(TopicWriters, topic)

\* a submission and a search both upserted the new topic quick; its frequency is 1
C23_Witness ==
  /\ \A w \in TopicWriters : TopicEnded(w)
  /\ tcall["w1"].caller = "posts" /\ tcall["w2"].caller = "search"
  /\ UpsertsOf(TopicWriters, <<"q","u","i","c","k">>) = 2
  /\ trending_topics[<<"q","u","i","c","k">>].frequency = 1

\* the extraction as the claim words it: lowercase, drop what is neither a
\* letter, a digit nor white space, split on white space, keep the tokens of
\* length 4..19, take the first n
StatedWordsOf ==
  [n \in {3, 5} |-> [t \in TopicTextIds |->
      LET alnum == SelectSeq(toLowerCase(TopicTexts[t]),
                     LAMBDA c : c \in LowerChars \cup DigitChars \cup SpaceChars)
          kept == SelectSeq(splitSpaces(alnum, <<>>, FALSE),
                     LAMBDA word : Len(word) > 3 /\ Len(word) < 20)
      IN slice(kept, n)]]

\* C24: for both callers the extraction lowercases the text, removes the
\* non-alphanumeric characters, splits on white space, keeps the tokens longer
\* than 3 and shorter than 20 in their order and returns the first N of them,
\* N = 3 for a search query and N = 5 for a submitted body; the callers differ
\* only in N.
C24_ExtractionDiffersOnlyInN ==
  \A w \in TopicWriters :
     tcall[w].caller # Null
       => tcall[w].words =
            StatedWordsOf[IF tcall[w].caller = "search" THEN 3 ELSE 5][tcall[w].text]

\* the search function extracted the token "the" of length 3
C24_Witness ==
  \E w \in TopicWriters :
     /\ tcall[w].caller = "search"
     /\ tcall[w].text = "t_fox"
     /\ tcall[w].words = <<<<"t","h","e">>, <<"q","u","i","c","k">>,
                           <<"b","r","o","w","n">>>>

\* C25: the extraction of "The Quick Brown Fox!!" by the posts function (N = 5)
\* yields exactly the topics quick, brown, fox in this order.
C25_QuickBrownFox ==
  \A w \in TopicWriters :
     (tcall[w].caller = "posts" /\ tcall[w].text = "t_fox")
       => tcall[w].words = <<<<"q","u","i","c","k">>, <<"b","r","o","w","n">>,
                             <<"f","o","x">>>>

\* the posts function extracted quick and brown only
C25_Witness ==
  \E w \in TopicWriters :
     /\ tcall[w].caller = "posts"
     /\ TopicTexts[tcall[w].text] = T_fox
     /\ tcall[w].words = <<<<"q","u","i","c","k">>, <<"b","r","o","w","n">>>>

\* C26: a failing trending upsert is not fatal: when an upsert of
\* updateTrendingTopics returns an error or throws, the remaining topics are
\* still attempted, the created post is unaffected and the creation is
\* answered with success.
C26_TrendingFailureNotFatal ==
  [][\A k \in CreateHandlers :
        (cpc[k] = "trending" /\ <<cpc[k], cwords[k]>> # <<cpc'[k], cwords'[k]>>)
          => /\ posts' = posts
             /\ IF cwords[k] = <<>>
                THEN cpc'[k] = "done" /\ cresp'[k].success
                ELSE cpc'[k] = "trending" /\ cwords'[k] = Tail(cwords[k])]_vars

\* the post p1 was created and moderated, an upsert threw, and the creation was
\* answered with an error
C26_Witness ==
  \E k \in CreateHandlers :
     /\ cpc[k] = "done"
     /\ creq[k].kind = "post" /\ creq[k].id = "p1"
     /\ "p1" \in DOMAIN posts
     /\ posts["p1"].moderation_status = "approved"
     /\ cresp[k] = CreateError(StoreError)

\* the candidate topics of a comment body
CommentTopics == [c \in BodyIds |-> postTopicWords(Bodies[c])]

\* C27: the trending extraction runs on the text of every successfully created
\* post or comment, whatever the moderation did: a creation is answered with
\* success only after the loop over the candidate topics of its text has run.
C27_TrendingOnEverySubmission ==
  [][\A k \in CreateHandlers :
        (cpc[k] # "done" /\ cpc'[k] = "done" /\ cresp'[k].success)
          => \/ cpc[k] = "trending" /\ cwords[k] = <<>>
             \/ creq[k].kind = "comment" /\ CommentTopics[creq[k].content] = <<>>]_vars

\* the comment "hate!!!!!" was created and answered with success; no topic was
\* ever upserted
C27_Witness ==
  \E k \in CreateHandlers :
     /\ cpc[k] = "done" /\ cresp[k].success
     /\ creq[k].kind = "comment" /\ creq[k].content = "t_two"
     /\ CommentTopics["t_two"] = << <<"h","a","t","e">> >>
     /\ comments[creq[k].id].content = "t_two"
     /\ trending_topics = <<>>

\* ------------------------------------------------ properties of the search
SearchBlank(s) == sreq[s].query # Null /\ trim(SearchTexts[sreq[s].query]) = <<>>
SearchSucceeded(s) == spc[s] = "done" /\ sresp[s].success

\* C29: a query that is empty or only whitespace is answered with an error and
\* has no side effect: no search runs for it and no topic is written; and a
\* topic is written for a search only once its search has succeeded.
C29_BlankQueryRejected ==
  /\ [](\A s \in SearchHandlers :
          SearchBlank(s) =>
            /\ spc[s] \in {"idle", "done"}
            /\ spc[s] = "done" => ~sresp[s].success /\ sresp[s].error # Null)
  /\ [][/\ (\E s \in SearchHandlers : SearchBlank(s) \/ SearchBlank(s)')
             => UNCHANGED <<dbVars, trending_topics>>
        /\ trending_topics' # trending_topics
             => \E s \in SearchHandlers :
                   /\ spc[s] = "trending"
                   /\ sres[s].returned =
                        slice(sortByRelevance(sres[s].results), sreq[s].limit)]_vars

C29_Witness ==
  /\ SearchSucceeded("s1") = FALSE
  /\ SearchBlank("s1")
  /\ sresp["s1"].error = "Search query is required"
  /\ trending_topics # <<>>

SearchDuplicateFetched(s) ==
  \E i, j \in 1..Len(sres[s].allPosts) :
     i < j /\ sres[s].allPosts[i] = sres[s].allPosts[j]

SearchPosition(s, r) == CHOOSE k \in 1..Len(sres[s].results) : sres[s].results[k] = r

\* the results hold no identity twice, are ordered by relevance with ties in
\* the upstream order, and are at most limit
SearchWellFormed(s) ==
  LET r == sresp[s].results
  IN /\ \A i, j \in 1..Len(r) :
          i < j => /\ <<r[i].type, r[i].id>> # <<r[j].type, r[j].id>>
                   /\ r[i].relevance >= r[j].relevance
                   /\ r[i].relevance = r[j].relevance
                        => SearchPosition(s, r[i]) < SearchPosition(s, r[j])
     /\ Len(r) <= sreq[s].limit

\* C28: the results of a search hold no identity (type, id) twice, are ordered
\* by relevance, non-increasing, with ties in the upstream order, and are at
\* most limit; and a duplicate never displaces a distinct candidate: when a
\* post was fetched twice and a post that matches the query is not among the
\* results, the results are limit entries.
C28_SearchResultsDistinctOrderedBounded ==
  \A s \in SearchHandlers :
     SearchSucceeded(s) =>
       /\ SearchWellFormed(s)
       /\ /\ SearchDuplicateFetched(s)
          /\ \E id \in SearchOf[sreq[s].query].title \cup SearchOf[sreq[s].query].content :
                \A i \in 1..Len(sresp[s].results) : sresp[s].results[i].id # id
          => Len(sresp[s].results) >= sreq[s].limit

C28_Witness ==
  /\ SearchSucceeded("s1")
  /\ SearchDuplicateFetched("s1")
  /\ Len(sresp["s1"].results) >= 3
  /\ sresp["s1"].results[2].relevance = sresp["s1"].results[3].relevance
  /\ sresp["s1"].results[1] # sres["s1"].results[1]

SearchWellFormedAlways == \A s \in SearchHandlers : SearchSucceeded(s) => SearchWellFormed(s)

\* ---------------------------------- properties of the posts function's votes
PostVoteAnswered(h) == vpc[h] = "postvote" /\ vpc'[h] = "done"
PostVotesOf(vs, r) == {v \in vs : v.user_id = r.user /\ v.post_id = r.post_id}

\* C31: a 'vote' request of the posts function by a user who has a Vote row on
\* the post succeeds unless the store call itself fails; with up or down the
\* user's single row for the post carries the new polarity and no second row
\* exists, with null the row is deleted.
C31_PostRevoteReplaces ==
  [][\A h \in VoteHandlers :
       (PostVoteAnswered(h) /\ PostVotesOf(votes, vreq[h]) # {}) =>
          \/ vresp'[h].error = StoreError /\ votes' = votes
          \/ /\ vresp'[h].success
             /\ IF vreq[h].vote_type = Null
                THEN PostVotesOf(votes', vreq[h]) = {}
                ELSE \E v \in votes' :
                        /\ PostVotesOf(votes', vreq[h]) = {v}
                        /\ v.vote_type = vreq[h].vote_type]_vars

\* a user who holds an up vote on the post has asked for a down vote and was answered
C31_Witness ==
  \E h \in VoteHandlers :
     /\ vpc[h] = "done"
     /\ vreq[h].vote_type = "down"
     /\ vresp[h].error # StoreError
     /\ \E v \in PostVotesOf(votes, vreq[h]) : v.vote_type = "up"

\* the stated formula: ageHours = max(elapsed, epsilon) with epsilon = 0.1 h,
\* base = vote_score + 0.5 * comment_count, base / (ageHours + 2)^1.8
StatedHotScore(vote_score, comment_count, created_at, now) ==
  LET elapsed == now - created_at
      ageHours == IF elapsed > 2 THEN elapsed ELSE 2
  IN [base2 |-> 2 * vote_score + comment_count, den20 |-> ageHours + 40]

\* C32: every call of calculate_hot_score returns
\* (vote_score + 0.5 * comment_count) / (ageHours + 2)^1.8 with
\* ageHours = max(elapsed hours, 0.1), for an elapsed time that is zero,
\* negative, between 0 and 0.1, or greater; the divisor is never zero.
C32_HotScoreIsStatedFormula ==
  \A i \in 1..Len(hotcalls) :
     /\ hotcalls[i].hot_score.den20 > 0
     /\ HotEqual(hotcalls[i].hot_score,
                 StatedHotScore(hotcalls[i].vote_score, hotcalls[i].comment_count,
                                hotcalls[i].created_at, hotcalls[i].now))

\* a call for net score 2 three minutes after the creation, and one before it
C32_Witness ==
  /\ Len(hotcalls) = 2
  /\ hotcalls[1].vote_score = 2
  /\ hotcalls[1].now - hotcalls[1].created_at = 1
  /\ hotcalls[1].hot_score.den20 = 41
  /\ hotcalls[2].now < hotcalls[2].created_at
  /\ hotcalls[2].hot_score.den20 = 42

FlagsAgreeWithStatus(row) ==
  /\ row.is_approved => row.moderation_status = "approved" /\ ~row.is_removed
  /\ row.moderation_status \in {"flagged", "rejected"} => ~row.is_approved

\* C33: in every reachable state, also after the moderation function has run
\* more than once on one item with different outcomes, is_approved implies
\* moderation_status 'approved' and not is_removed, and an item whose
\* moderation_status is 'flagged' or 'rejected' is not is_approved.
C33_FlagsAgreeWithStatus ==
  /\ \A id \in DOMAIN posts : FlagsAgreeWithStatus(posts[id])
  /\ \A id \in DOMAIN comments : FlagsAgreeWithStatus(comments[id])

\* the post was approved by one run and rejected by the next
C33_Witness ==
  /\ nmod = 2
  /\ \A m \in ModHandlers : mpc[m] = "idle"
  /\ posts["p1"].moderation_status = "rejected"
  /\ posts["p1"].is_removed
  /\ posts["p1"].is_approved

ApprovedCommentsOf(cs, post_id) ==
  {c \in DOMAIN cs : cs[c].post_id = post_id /\ cs[c].is_approved}

\* C34: in every reachable state the comment_count of every post is not
\* negative and is the number of the comments of the post with
\* is_approved = true, after any creations, moderation decisions and deletions
\* of comments.
C34_CommentCountIsApprovedComments ==
  \A id \in DOMAIN posts :
     /\ posts[id].comment_count >= 0
     /\ posts[id].comment_count = Cardinality(ApprovedCommentsOf(comments, id))

\* a comment was created and approved, and the post counts it
C34_Witness ==
  /\ posts # <<>>
  /\ posts["p1"].comment_count = 1
  /\ ApprovedCommentsOf(comments, "p1") = {"c1"}

\* ------------------------------------------- properties of the communities
ApprovedMembers(ms, c) == {m \in ms : m.community_id = c /\ m.status = "approved"}
MembershipsOf(ms, user, c) == {m \in ms : m.user_id = user /\ m.community_id = c}
CommunityAnswered(g, from) == gpc[g] = from /\ gpc'[g] = "done"

\* C35: in every reachable state the member_count of every community is the
\* number of its memberships with status 'approved'; a newly created community
\* whose only member is its owner has member_count 1.
C35_MemberCountIsApprovedMemberships ==
  \A c \in DOMAIN communities :
     communities[c].member_count = Cardinality(ApprovedMembers(memberships, c))

\* a 'create' request was answered with success: the community has one
\* membership, the owner's, and member_count 2
C35_Witness ==
  \E g \in CommunityHandlers :
     /\ gpc[g] = "done" /\ greq[g].action = "create" /\ gresp[g].success
     /\ MembershipsOf(memberships, greq[g].user, gloc[g].community_id)
           = {m \in memberships : m.community_id = gloc[g].community_id}
     /\ Cardinality(ApprovedMembers(memberships, gloc[g].community_id)) = 1
     /\ communities[gloc[g].community_id].member_count = 2

\* C36: a join with no membership row of (user, community), or with a rejected
\* one, succeeds unless the store call itself fails, and leaves the one row
\* 'approved' for a public community and 'pending' for a private one; a join
\* with an approved or pending row is refused and the rows are unchanged; there
\* are never two rows for one (user, community), also under concurrent joins.
C36_JoinIsTransitionOfOneRow ==
  /\ [](\A m1 \in memberships : \A m2 \in memberships :
          (m1.user_id = m2.user_id /\ m1.community_id = m2.community_id) => m1 = m2)
  /\ [][\A g \in CommunityHandlers :
          LET prior == MembershipsOf(memberships, greq[g].user, greq[g].community_id)
              after == MembershipsOf(memberships', greq[g].user, greq[g].community_id)
              status == IF communities[greq[g].community_id].privacy_type = "public"
                        THEN "approved" ELSE "pending"
          IN /\ CommunityAnswered(g, "join_member") =>
                   /\ memberships' = memberships
                   /\ \E m \in prior : m.status \in {"approved", "pending"}
             /\ CommunityAnswered(g, "join_upsert") =>
                   IF \A m \in prior : m.status = "rejected"
                   THEN \/ gresp'[g].error = StoreError /\ memberships' = memberships
                        \/ /\ gresp'[g].success
                           /\ \E m \in after : after = {m} /\ m.status = status
                   ELSE ~gresp'[g].success /\ memberships' = memberships]_vars

\* u2, whose membership of n1 was rejected, has asked to join n1 and was answered
C36_Witness ==
  \E g \in CommunityHandlers :
     /\ gpc[g] = "done" /\ greq[g].action = "join"
     /\ greq[g].user = "u2" /\ greq[g].community_id = "n1"
     /\ gresp[g].error \notin {StoreError, "Community not found"}
     /\ \E m \in MembershipsOf(memberships, "u2", "n1") : m.status = "rejected"

\* the requester owns community c or holds an approved 'admin' membership of it
OwnerOrAdmin(user, c) ==
  \/ communities[c].owner_id = user
  \/ \E m \in MembershipsOf(memberships, user, c) :
        m.status = "approved" /\ m.role = "admin"

\* C37: approve_membership changes the status of a membership only when the
\* requester owns the community of the membership or holds an approved 'admin'
\* membership of that community; for any other requester, and for an unknown
\* membership id, the request fails and every membership row is unchanged.
C37_OnlyOwnerOrAdminApproves ==
  [][\A g \in CommunityHandlers :
       LET target == {m \in memberships : m.id = greq[g].membership_id}
       IN /\ (greq[g].action = "approve_membership" /\ gpc[g] # "done"
                /\ gpc'[g] = "done" /\ memberships' # memberships)
               => \E m \in target : OwnerOrAdmin(greq[g].user, m.community_id)
          /\ (greq[g].action = "approve_membership" /\ gpc[g] # "done"
                /\ gpc'[g] = "done"
                /\ \A m \in target : ~OwnerOrAdmin(greq[g].user, m.community_id))
               => ~gresp'[g].success /\ memberships' = memberships]_vars

\* u2, who owns a community of their own, was refused the approval of their
\* pending membership of n1; the membership is still pending
C37_Witness ==
  \E g \in CommunityHandlers :
     /\ gpc[g] = "done" /\ greq[g].action = "approve_membership"
     /\ greq[g].user = "u2" /\ greq[g].approve
     /\ gresp[g].error = "You do not have permission to approve memberships"
     /\ \E m \in MembershipsOf(memberships, "u2", "n1") :
           m.id = greq[g].membership_id /\ m.status = "pending"
     /\ \E c \in DOMAIN communities : communities[c].owner_id = "u2"

\* C38: the creation of a community is all or nothing: a 'create' request that
\* fails after the community row was inserted leaves no community, one that
\* succeeds leaves the community with an approved 'admin' membership of its
\* owner; and no two communities have one name, also under concurrent
\* creations of one name.
C38_CommunityCreationAllOrNothing ==
  /\ [](\A c \in DOMAIN communities : \A d \in DOMAIN communities :
          communities[c].name = communities[d].name => c = d)
  /\ [][\A g \in CommunityHandlers :
          CommunityAnswered(g, "create_member") =>
             LET c == gloc[g].community_id
             IN IF gresp'[g].success
                THEN \E m \in MembershipsOf(memberships', communities'[c].owner_id, c) :
                        m.status = "approved" /\ m.role = "admin"
                ELSE c \notin DOMAIN communities']_vars

\* a creation failed at the insert of the membership, and a concurrent
\* creation of the same name was refused
C38_Witness ==
  \E g \in CommunityHandlers : \E h \in CommunityHandlers :
     /\ gpc[g] = "done" /\ greq[g].action = "create" /\ gresp[g].error = StoreError
     /\ gloc[g].community_id \in DOMAIN communities
     /\ MembershipsOf(memberships, greq[g].user, gloc[g].community_id) = {}
     /\ gpc[h] = "done" /\ greq[h].action = "create"
     /\ gresp[h].error = UniqueViolation
     /\ toLowerCase(greq[h].name) = communities[gloc[g].community_id].name

DepthWellFormed(cs) ==
  \A c \in DOMAIN cs :
     /\ cs[c].depth \in 0..5
     /\ IF cs[c].parent_id = Null
        THEN cs[c].depth = 0
        ELSE /\ cs[c].parent_id \in DOMAIN cs
             /\ cs[c].depth = cs[cs[c].parent_id].depth + 1

\* a reply whose parent, when the handler looks for it, is missing or of depth 5
ReplyToBeRejected(k) ==
  /\ cpc[k] = "parent"
  /\ \/ creq[k].parent_id \notin DOMAIN comments
     \/ comments[creq[k].parent_id].depth = 5

\* C39: in every reachable state every comment has a depth from 0 to 5, a
\* top-level comment has depth 0 and a reply has the depth of its parent plus
\* one; a reply to a parent of depth 5 or to a parent that does not exist is
\* rejected and creates no comment row.
C39_CommentDepthBounded ==
  /\ [] DepthWellFormed(comments)
  /\ [][\A k \in CreateHandlers :
          (ReplyToBeRejected(k) /\ cpc'[k] # cpc[k]) =>
             /\ cpc'[k] = "done"
             /\ ~cresp'[k].success /\ cresp'[k].error # Null
             /\ comments' = comments]_vars

\* with the thread in place (d5 the reply of depth 5 to d4) a reply to d5 has
\* been refused for the nesting limit, and no row was created
C39_Witness ==
  /\ comments = ThreadComments
  /\ \E k \in CreateHandlers :
        /\ cpc[k] = "done" /\ creq[k].parent_id = "d5"
        /\ cresp[k].error = "Maximum comment nesting depth reached"
====
